---- MODULE Spec2Model ----
(***************************************************************************)
(* Responsive Image Advisor: the cross-frame selection bridge.             *)
(*                                                                         *)
(* Three programs are modelled, each with its own specification, and the   *)
(* selection normaliser of the bridge has one of its own (SpecNormaliser,  *)
(* src/unnamed/part_002 lines 492-557), as has the origin-checking panel   *)
(* fed by its Designer with every shape of widths (SpecWidths):            *)
(*   SpecBridge - the origin-pinning Host Bridge                           *)
(*                (src/unnamed/part_002 lines 311-1006)                    *)
(*   SpecPanel  - the origin-checking Panel Controller                     *)
(*                (src/public/panel.js lines 1-590)                        *)
(*   SpecRetry  - the retrying Panel Controller                            *)
(*                (src/unnamed/part_002 lines 1-309)                       *)
(*                                                                         *)
(* JavaScript values are tagged records [t |-> tag, v |-> value].          *)
(* Numbers are kept in tenths of a unit (6405 is 640.5) so that rounding   *)
(* to the nearest pixel is a real conversion.                              *)
(***************************************************************************)
EXTENDS Integers, Sequences, FiniteSets, TLC

(***************************************************************************)
(* JavaScript values                                                       *)
(***************************************************************************)
Undef == [t |-> "undef"]

Null == [t |-> "null"]

NaN == [t |-> "nan"]

Infinity == [t |-> "inf"]

JBool(b) == [t |-> "bool", v |-> b]

Num(tenths) == [t |-> "num", v |-> tenths]

Px(n) == Num(n * 10)

Str(s) == [t |-> "str", v |-> s]

Arr(s) == [t |-> "arr", v |-> s]

Obj(r) == [t |-> "obj", v |-> r]

Node(n) == [t |-> "node", v |-> n]

EmptyObj == [t |-> "obj", v |-> <<>>]

\* JavaScript truthiness (ToBoolean)
Truthy(x) ==
  CASE x.t \in {"undef", "null", "nan"} -> FALSE
    [] x.t = "bool" -> x.v
    [] x.t = "num" -> x.v # 0
    [] x.t = "str" -> x.v # ""
    [] OTHER -> TRUE

IsNullish(x) == x.t \in {"undef", "null"}

\* a ?? b
Coalesce(a, b) == IF IsNullish(a) THEN b ELSE a

\* a || b
OrElse(a, b) == IF Truthy(a) THEN a ELSE b

IsArray(x) == x.t = "arr"

\* typeof x === 'object' && x (arrays, plain objects and DOM nodes)
IsObjectLike(x) == x.t \in {"obj", "arr", "node"}

\* const name = value; Continue(name): the value is computed once
Then(value, Continue(_)) == CHOOSE result \in {Continue(name) : name \in {value}} : TRUE

(***************************************************************************)
(* The host document: a fixed set of DOM nodes whose rendered width        *)
(* depends on the current layout of the Designer canvas.                   *)
(***************************************************************************)
DomNodes == {"hero", "pic", "bg"}

Layouts == {"wide", "narrow"}

DomTagName(n) ==
  CASE n = "hero" -> "DIV"
    [] n = "pic" -> "IMG"
    [] n = "bg" -> "SECTION"

DomId(n) ==
  CASE n = "hero" -> "hero"
    [] n = "pic" -> ""
    [] n = "bg" -> "bg"

DomClassList(n) ==
  CASE n = "hero" -> <<>>
    [] n = "pic" -> <<"photo">>
    [] n = "bg" -> <<>>

\* styles.backgroundImage !== 'none'
DomHasBackground(n) == n = "bg"

\* node.querySelector(MEDIA_SELECTOR): the first media descendant, if any
DomNestedMedia(n) == IF n = "hero" THEN Node("pic") ELSE Null

\* getBoundingClientRect().width, in tenths of a pixel
DomRectWidth(n, layout) ==
  CASE layout = "wide" /\ n = "hero" -> 12004
    [] layout = "wide" /\ n = "pic" -> 6405
    [] layout = "wide" /\ n = "bg" -> 12004
    [] layout = "narrow" /\ n = "hero" -> 3750
    [] layout = "narrow" /\ n = "pic" -> 4
    [] layout = "narrow" /\ n = "bg" -> 3750
    [] OTHER -> 0

\* document.querySelector(selector)
DomQuerySelector(selector) ==
  CASE selector = Str("#hero") -> Node("hero")
    [] selector = Str(".photo") -> Node("pic")
    [] selector = Str("#bg") -> Node("bg")
    [] OTHER -> Null

\* document.getElementById(id)
DomGetElementById(id) ==
  CASE id = Str("hero") -> Node("hero")
    [] id = Str("bg") -> Node("bg")
    [] OTHER -> Null

\* String.prototype.toLowerCase on the strings of this model
ToLowerCase(s) ==
  CASE s = "DIV" -> "div"
    [] s = "IMG" -> "img"
    [] s = "SECTION" -> "section"
    [] OTHER -> s

\* Property read obj[f]; DOM nodes expose id and tagName
Get(o, f) ==
  CASE o.t = "obj" -> IF f \in DOMAIN o.v THEN o.v[f] ELSE Undef
    [] o.t = "node" ->
         (CASE f = "id" -> Str(DomId(o.v))
            [] f = "tagName" -> Str(DomTagName(o.v))
            [] OTHER -> Undef)
    [] OTHER -> Undef

\* Object with field f set to x (obj[f] = x)
SetField(o, f, x) == Obj([k \in DOMAIN o.v \cup {f} |-> IF k = f THEN x ELSE o.v[k]])

(***************************************************************************)
(* Host Bridge: pure helpers                                               *)
(***************************************************************************)
MEDIA_TAGS == {"img", "picture", "video", "canvas", "figure", "svg"}

\* Math.round on tenths: round half up
MathRound(tenths) == ((tenths + 5) \div 10) * 10

\* Number.parseFloat on the strings of this model, in tenths
ParseFloat(s) ==
  CASE s = "640" -> Num(6400)
    [] s = "320.6px" -> Num(3206)
    [] s = "-5" -> Num(-50)
    [] s = "0" -> Num(0)
    [] OTHER -> NaN

toPositiveNumber(value) ==
  CASE value.t = "num" /\ value.v > 0 -> Num(MathRound(value.v))
    [] value.t = "str" ->
         LET parsed == ParseFloat(value.v)
         IN IF parsed.t = "num" /\ parsed.v > 0 THEN Num(MathRound(parsed.v)) ELSE Null
    [] OTHER -> Null

sanitizeWidths(widths) ==
  IF ~Truthy(widths) \/ ~IsObjectLike(widths) THEN Null
  ELSE LET kept == {k \in {"desktop", "tablet", "mobile"} : Truthy(toPositiveNumber(Get(widths, k)))}
       IN IF kept = {} THEN Null
          ELSE Obj([k \in kept |-> toPositiveNumber(Get(widths, k))])

createSerializableSelection(source) ==
  IF ~Truthy(source) \/ ~IsObjectLike(source) THEN EmptyObj
  ELSE LET safe == Obj([id |-> Coalesce(Get(source, "id"), Coalesce(Get(source, "elementId"), Null)),
                        elementId |-> Coalesce(Get(source, "elementId"), Coalesce(Get(source, "id"), Null)),
                        label |-> Coalesce(Get(source, "label"), Coalesce(Get(source, "name"), Null)),
                        selector |-> Coalesce(Get(source, "selector"), Null),
                        tagName |-> Coalesce(Get(source, "tagName"), Null)])
       IN Then(sanitizeWidths(Get(source, "widths")), LAMBDA sanitizedWidths :
            IF Truthy(sanitizedWidths) THEN SetField(safe, "widths", sanitizedWidths) ELSE safe)

DomNodeFields == <<"domNode", "element", "el", "node", "target">>

\* typeof candidate.getBoundingClientRect === 'function'
HasBoundingRect(x) == x.t = "node"

resolveDomNode(selectedElement) ==
  LET hits == {i \in 1..Len(DomNodeFields) : HasBoundingRect(Get(selectedElement, DomNodeFields[i]))}
      first == CHOOSE i \in hits : \A j \in hits : i <= j
      selector == Get(selectedElement, "selector")
      bySelector == IF Truthy(selector) THEN DomQuerySelector(selector) ELSE Null
      id == Get(selectedElement, "id")
      byId == IF Truthy(id) THEN DomGetElementById(id) ELSE Null
  IN CASE hits # {} -> Get(selectedElement, DomNodeFields[first])
       [] Truthy(bySelector) -> bySelector
       [] Truthy(byId) -> byId
       [] OTHER -> Null

hasBackgroundImage(node) == node.t = "node" /\ DomHasBackground(node.v)

isImageLikeElement(node) ==
  /\ node.t = "node"
  /\ \/ ToLowerCase(DomTagName(node.v)) \in MEDIA_TAGS
     \/ hasBackgroundImage(node)

findVisualMediaNode(node) ==
  CASE node.t # "node" -> Null
    [] isImageLikeElement(node) -> node
    [] hasBackgroundImage(node) -> node
    [] Truthy(DomNestedMedia(node.v)) -> DomNestedMedia(node.v)
    [] OTHER -> node

computeBoundingWidths(node, layout, device) ==
  LET fallback == Obj([desktop |-> Null, mobile |-> Null])
      width == toPositiveNumber(Num(DomRectWidth(node.v, layout)))
  IN CASE node.t # "node" -> fallback
       [] ~Truthy(width) -> fallback
       [] device = "mobile" -> Obj([mobile |-> width, desktop |-> width])
       [] OTHER -> Obj([desktop |-> width, mobile |-> width])

\* Array.prototype.join('.')
RECURSIVE JoinDot(_)
JoinDot(s) ==
  IF Len(s) = 0 THEN ""
  ELSE IF Len(s) = 1 THEN s[1] ELSE s[1] \o "." \o JoinDot(Tail(s))

buildSelector(node, fallbackSelector) ==
  CASE Truthy(fallbackSelector) -> fallbackSelector
    [] node.t # "node" -> Null
    [] DomId(node.v) # "" -> Str("#" \o DomId(node.v))
    [] Len(DomClassList(node.v)) > 0 ->
         Str(ToLowerCase(DomTagName(node.v)) \o "." \o JoinDot(DomClassList(node.v)))
    [] OTHER -> Str(ToLowerCase(DomTagName(node.v)))

\* {...a, ...b}: the fields of b override those of a
Spread(a, b) ==
  Obj([k \in DOMAIN a.v \cup DOMAIN b.v |-> IF k \in DOMAIN b.v THEN b.v[k] ELSE a.v[k]])

normalizeSelection(selectedElement, layout, device) ==
  IF ~Truthy(selectedElement) THEN Null
  ELSE Then(createSerializableSelection(selectedElement), LAMBDA safeBase :
       Then(resolveDomNode(selectedElement), LAMBDA domNode :
       Then(findVisualMediaNode(domNode), LAMBDA visualNode :
       Then(OrElse(visualNode, domNode), LAMBDA measurementNode :
       Then(computeBoundingWidths(measurementNode, layout, device), LAMBDA computedWidths :
         LET tagName == IF measurementNode.t = "node"
                        THEN Str(ToLowerCase(DomTagName(measurementNode.v)))
                        ELSE Coalesce(Get(safeBase, "tagName"), Null)
             id == OrElse(Get(measurementNode, "id"), OrElse(Get(safeBase, "id"), Null))
             selector == buildSelector(measurementNode, Get(safeBase, "selector"))
         IN Spread(safeBase,
                   Obj([tagName |-> tagName,
                        id |-> id,
                        selector |-> selector,
                        computedWidths |-> computedWidths,
                        computedWidthDesktop |-> Get(computedWidths, "desktop"),
                        computedWidthMobile |-> Get(computedWidths, "mobile")])))))))

createEmptySelectionState == Obj([elements |-> Arr(<<>>), primary |-> Null, devMock |-> JBool(FALSE)])

extractSelectionArray(payload) ==
  CASE ~Truthy(payload) -> <<>>
    [] IsArray(payload) -> payload.v
    [] IsArray(Get(payload, "selectedElements")) -> Get(payload, "selectedElements").v
    [] IsArray(Get(payload, "elements")) -> Get(payload, "elements").v
    [] IsArray(Get(payload, "selection")) -> Get(payload, "selection").v
    [] Truthy(Get(payload, "selectedElement")) -> <<Get(payload, "selectedElement")>>
    [] Truthy(Get(payload, "element")) -> <<Get(payload, "element")>>
    [] OTHER -> <<payload>>

\* Array.prototype.filter(Boolean)
FilterTruthy(s) == SelectSeq(s, Truthy)

normalizeSelectionState(payload, layout, device) ==
  IF Truthy(payload) /\ Truthy(Get(payload, "devMock"))
  THEN Obj([elements |-> OrElse(Get(payload, "elements"), Arr(<<>>)),
            primary |-> OrElse(Get(payload, "primary"), Null),
            devMock |-> JBool(TRUE)])
  ELSE Then(extractSelectionArray(payload), LAMBDA selectionArray :
       Then(FilterTruthy([i \in 1..Len(selectionArray) |->
                            Then(selectionArray[i], LAMBDA selectedElement :
                                 normalizeSelection(selectedElement, layout, device))]),
            LAMBDA normalizedElements :
         IF Len(selectionArray) = 0 \/ Len(normalizedElements) = 0
         THEN createEmptySelectionState
         ELSE Obj([elements |-> Arr(normalizedElements),
                   primary |-> normalizedElements[1],
                   devMock |-> JBool(FALSE)])))

createDevSelectionState(reason) ==
  LET mockElement == Obj([id |-> Str("riaa-dev-mock"),
                          label |-> Str("DEV Mock Image"),
                          tagName |-> Str("img"),
                          selector |-> Str(".riaa-dev-mock"),
                          widths |-> Obj([desktop |-> Px(640), mobile |-> Px(320)]),
                          computedWidths |-> Obj([desktop |-> Px(640), mobile |-> Px(320)]),
                          computedWidthDesktop |-> Px(640),
                          computedWidthMobile |-> Px(320),
                          devMock |-> JBool(TRUE),
                          reason |-> reason])
  IN Obj([elements |-> Arr(<<mockElement>>), primary |-> mockElement,
          devMock |-> JBool(TRUE), reason |-> reason])

\* JSON.stringify of a signature component: non-finite numbers and
\* undefined become null
JsonValue(x) == IF x.t \in {"undef", "nan", "inf"} THEN Null ELSE x

\* element.id ?? element.elementId ?? element.selector ?? null
SignatureId(element) ==
  Coalesce(Get(element, "id"), Coalesce(Get(element, "elementId"), Coalesce(Get(element, "selector"), Null)))

\* a signature that also covers the measured widths of the primary element
serializeSelectionState_WithWidths(state) ==
  IF ~Truthy(state) THEN Str("null")
  ELSE LET elements == IF IsArray(Get(state, "elements")) THEN Get(state, "elements").v ELSE <<>>
       IN Obj([count |-> Px(Len(elements)),
               ids |-> Arr([i \in 1..Len(elements) |-> JsonValue(SignatureId(elements[i]))]),
               selector |-> JsonValue(Coalesce(Get(Get(state, "primary"), "selector"), Null)),
               tagName |-> JsonValue(Coalesce(Get(Get(state, "primary"), "tagName"), Null)),
               widths |-> JsonValue(Coalesce(Get(Get(state, "primary"), "computedWidths"), Null)),
               devMock |-> JBool(Truthy(Get(state, "devMock")))])

\* The JSON text is modelled by the tuple of the values it serializes.
serializeSelectionState(state) ==
  IF ~Truthy(state) THEN Str("null")
  ELSE LET elements == IF IsArray(Get(state, "elements")) THEN Get(state, "elements").v ELSE <<>>
       IN Obj([count |-> Px(Len(elements)),
               ids |-> Arr([i \in 1..Len(elements) |-> JsonValue(SignatureId(elements[i]))]),
               selector |-> JsonValue(Coalesce(Get(Get(state, "primary"), "selector"), Null)),
               tagName |-> JsonValue(Coalesce(Get(Get(state, "primary"), "tagName"), Null)),
               devMock |-> JBool(Truthy(Get(state, "devMock")))])

(***************************************************************************)
(* Bounds of the model                                                     *)
(***************************************************************************)
\* pending asynchronous host calls (fetches, poll reads, deferred resizes)
MaxPending == 1

\* panel messages delivered to the Host Bridge in one run
MaxMessages == 2

\* host selection or layout changes in one run
MaxHostChanges == 1

\* selection events and poll ticks in one run
MaxNotifications == 1

(***************************************************************************)
(* Host Bridge: environment                                                *)
(***************************************************************************)
MESSAGE_TYPE == "element-selected"

SUBSCRIBE_MESSAGE == "riaa:selection:subscribe"

REQUEST_MESSAGE == "riaa:selection:request"

PANEL_RESIZE_MESSAGE == "riaa:panel:resize"

CONTEXT_READY_EVENT == "riaa:context-ready"

PANEL_HOST_SUFFIXES == {<<"website-files", "com">>, <<"webflow-ext", "com">>}

\* number of candidate event names in SELECTION_EVENT_NAMES
SELECTION_EVENT_NAMES == 4

\* null / undefined / '' origin
NoOrigin == ""

\* null window reference (event.source of a message without a sender window)
NoWindow == "nowindow"

Windows == {"w1", "w2"}

O_SCRIPT == "https://designer.example"

O_EXT == "https://abc.webflow-ext.com"

O_EVIL == "https://evilwebflow-ext.com"

Origins == {O_SCRIPT, O_EXT, O_EVIL}

\* new URL(origin).hostname as dot-separated labels; <<>> when new URL throws
UrlHostname(origin) ==
  CASE origin = O_SCRIPT -> <<"designer", "example">>
    [] origin = O_EXT -> <<"abc", "webflow-ext", "com">>
    [] origin = O_EVIL -> <<"evilwebflow-ext", "com">>
    [] origin = "https://webflow.com" -> <<"webflow", "com">>
    [] origin = "https://app.webflow.com" -> <<"app", "webflow", "com">>
    [] origin = "https://evilwebflow.com" -> <<"evilwebflow", "com">>
    [] OTHER -> <<>>

\* hostname === suffix || hostname.endsWith('.' + suffix)
HostMatchesSuffix(hostname, suffix) ==
  /\ Len(hostname) >= Len(suffix)
  /\ SubSeq(hostname, Len(hostname) - Len(suffix) + 1, Len(hostname)) = suffix

\* The host runtime object (window.webflow || window.Webflow) by capability.
\* attachThrows: the (method, event name) pairs for which the call of
\* runtime.subscribe or runtime.on throws
NoRuntime ==
  [present |-> FALSE, getSelectedElements |-> FALSE, getSelectedElement |-> FALSE,
   subscribe |-> FALSE, on |-> FALSE, designerScript |-> FALSE, require |-> FALSE,
   setExtensionSize |-> FALSE, resize |-> FALSE, ready |-> FALSE, breakpoint |-> "",
   attachThrows |-> {}]

R_FULL ==
  [present |-> TRUE, getSelectedElements |-> TRUE, getSelectedElement |-> TRUE,
   subscribe |-> TRUE, on |-> TRUE, designerScript |-> TRUE, require |-> TRUE,
   setExtensionSize |-> TRUE, resize |-> FALSE, ready |-> TRUE, breakpoint |-> "desktop",
   attachThrows |-> {}]

R_SINGLE ==
  [present |-> TRUE, getSelectedElements |-> FALSE, getSelectedElement |-> TRUE,
   subscribe |-> FALSE, on |-> TRUE, designerScript |-> FALSE, require |-> FALSE,
   setExtensionSize |-> FALSE, resize |-> TRUE, ready |-> FALSE, breakpoint |-> "mobile portrait",
   attachThrows |-> {}]

R_BARE ==
  [present |-> TRUE, getSelectedElements |-> FALSE, getSelectedElement |-> FALSE,
   subscribe |-> FALSE, on |-> FALSE, designerScript |-> FALSE, require |-> FALSE,
   setExtensionSize |-> FALSE, resize |-> FALSE, ready |-> FALSE, breakpoint |-> "",
   attachThrows |-> {}]

RuntimeShapes == {R_FULL, R_SINGLE, R_BARE}

\* the shapes of a runtime that is defined only after the bridge script ran
LateRuntimeShapes == {R_SINGLE}

\* Raw selection objects the host can hand out
ElPic ==
  Obj([id |-> Str("a"), domNode |-> Node("pic"),
       widths |-> Obj([desktop |-> Num(6404), tablet |-> Str("320.6px"), mobile |-> Num(4)])])

ElHero == Obj([elementId |-> Str("h"), name |-> Str("Hero"), selector |-> Str("#hero")])

ElRawMock ==
  Obj([name |-> Str("Mock"), tagName |-> Str("img"),
       widths |-> Obj([desktop |-> Num(-50), mobile |-> NaN])])

P_NONE == Null

P_ARRAY == Arr(<<ElPic>>)

P_SINGLE == Obj([element |-> ElHero])

P_DEVMOCK == Obj([devMock |-> JBool(TRUE), primary |-> ElRawMock])

RawPayloads == {P_NONE, P_ARRAY, P_SINGLE, P_DEVMOCK}

PanelSizes == {Obj([width |-> Num(5204), height |-> Str("640")])}

(***************************************************************************)
(* State                                                                   *)
(***************************************************************************)
VARIABLES
  \* --- shared
  DEV_ENVIRONMENT,          \* the environment flag, fixed at load
  step,                     \* the handler that ran last and what it was given
  \* --- Host Bridge (src/unnamed/part_002 lines 311-1006)
  scriptOrigin,
  trustedPanelOrigin,
  panelOriginConfirmed,
  trustedPanelWindow,
  subscribers,              \* the Set, in insertion order
  subscriberOrigins,        \* the WeakMap: window -> origin (NoOrigin if absent)
  latestSelectionState,
  selectionPollTimer,       \* TRUE while the poll interval is set
  lastPolledSignature,
  devMockActive,
  designerScriptSupported,
  hostRuntime,              \* window.webflow || window.Webflow, now
  runtimePromise,           \* "pending", "runtime" or "null"
  initPhase,                \* "loaded", "settled" (then-callback ran), "ready"
  listeners,                \* (method, event name) pairs of the handlers attached to the runtime
  hostSelection,            \* what the host's selection getter returns now
  layout,                   \* current layout of the Designer canvas
  pending,                  \* host calls awaited by the bridge
  posted,                   \* postMessage calls made by the last handler
  hostPanelSize,            \* last size handed to the host's resize method
  contacted,                \* a message from an acceptable origin was received
  budget,                   \* remaining environment steps, by kind
  \* --- retrying Panel Controller (src/unnamed/part_002 lines 1-309)
  currentSelectedRetry,     \* its currentSelected
  handshakeTimer,           \* the interval handle, 0 for null
  handshakeAttempts,
  handshakeComplete,
  liveTimers,               \* handles of the intervals set and not cleared
  roundsSinceReset,         \* retry rounds sent since handshakeAttempts was last 0
  retryUi,                  \* status text, label, results card, Analyze button
  retryRequest,             \* the recommendation request in flight, or Null
  sentToHost,               \* messages the last handler posted to the host
  refreshes,                \* clicks on the refresh button so far
  \* --- origin-checking Panel Controller (src/public/panel.js lines 1-590)
  designerMessageWindow,
  referrerOrigin,
  trustedDesignerOrigin,
  designerOriginConfirmed,
  currentSelectionState,
  currentSelected,
  devMockSelectionActive,
  analyzeProcessing,
  analyzeSelectionReady,
  panelUi,                  \* status text, label, results card, Analyze button, dev badge
  panelRequest,             \* the recommendation request in flight, or Null
  panelPosted,              \* messages the last handler posted, with their target origin
  resizeLoop                \* ensureResize's interval and getRuntimeApi's promise

retryVars ==
  <<currentSelectedRetry, handshakeTimer, handshakeAttempts, handshakeComplete, liveTimers,
    roundsSinceReset, retryUi, retryRequest, sentToHost, refreshes>>

panelVars ==
  <<designerMessageWindow, referrerOrigin, trustedDesignerOrigin, designerOriginConfirmed,
    currentSelectionState, currentSelected, devMockSelectionActive, analyzeProcessing,
    analyzeSelectionReady, panelUi, panelRequest, panelPosted, resizeLoop>>

bridgeVars ==
  <<scriptOrigin, trustedPanelOrigin, panelOriginConfirmed, trustedPanelWindow,
    subscribers, subscriberOrigins, latestSelectionState, selectionPollTimer,
    lastPolledSignature, devMockActive, designerScriptSupported, hostRuntime,
    runtimePromise, initPhase, listeners, hostSelection, layout, pending, posted,
    hostPanelSize, contacted, budget>>

\* ensureResize has not run, or is left out of the behaviours at hand
NoResizeLoop == [timer |-> FALSE]

\* the origin-checking panel is not loaded
PanelIdle ==
  /\ resizeLoop = NoResizeLoop
  /\ designerMessageWindow = NoWindow
  /\ referrerOrigin = NoOrigin
  /\ trustedDesignerOrigin = NoOrigin
  /\ designerOriginConfirmed = FALSE
  /\ currentSelectionState = Null
  /\ currentSelected = Null
  /\ devMockSelectionActive = FALSE
  /\ analyzeProcessing = FALSE
  /\ analyzeSelectionReady = FALSE
  /\ panelUi = <<>>
  /\ panelRequest = Null
  /\ panelPosted = <<>>

\* the retrying panel is not loaded
RetryIdle ==
  /\ currentSelectedRetry = Null
  /\ handshakeTimer = 0
  /\ handshakeAttempts = 0
  /\ handshakeComplete = FALSE
  /\ liveTimers = {}
  /\ roundsSinceReset = 0
  /\ retryUi = <<>>
  /\ retryRequest = Null
  /\ sentToHost = <<>>
  /\ refreshes = 0

(***************************************************************************)
(* Host Bridge: the mutable globals as one value, so that the functions    *)
(* of the source compose as they do in the code                            *)
(***************************************************************************)
BridgeState ==
  [trustedPanelOrigin |-> trustedPanelOrigin,
   panelOriginConfirmed |-> panelOriginConfirmed,
   trustedPanelWindow |-> trustedPanelWindow,
   subscribers |-> subscribers,
   subscriberOrigins |-> subscriberOrigins,
   latestSelectionState |-> latestSelectionState,
   selectionPollTimer |-> selectionPollTimer,
   lastPolledSignature |-> lastPolledSignature,
   devMockActive |-> devMockActive,
   designerScriptSupported |-> designerScriptSupported,
   listeners |-> listeners,
   pending |-> pending,
   posted |-> <<>>,
   hostPanelSize |-> hostPanelSize]

BridgeBecomes(result) ==
  \E B \in {result} :
  /\ trustedPanelOrigin' = B.trustedPanelOrigin
  /\ panelOriginConfirmed' = B.panelOriginConfirmed
  /\ trustedPanelWindow' = B.trustedPanelWindow
  /\ subscribers' = B.subscribers
  /\ subscriberOrigins' = B.subscriberOrigins
  /\ latestSelectionState' = B.latestSelectionState
  /\ selectionPollTimer' = B.selectionPollTimer
  /\ lastPolledSignature' = B.lastPolledSignature
  /\ devMockActive' = B.devMockActive
  /\ designerScriptSupported' = B.designerScriptSupported
  /\ listeners' = B.listeners
  /\ pending' = B.pending
  /\ posted' = B.posted
  /\ hostPanelSize' = B.hostPanelSize

\* the structured clone of postMessage rejects DOM nodes (DataCloneError)
RECURSIVE Cloneable(_)
Cloneable(x) ==
  CASE x.t = "node" -> FALSE
    [] x.t = "arr" -> \A i \in 1..Len(x.v) : Cloneable(x.v[i])
    [] x.t = "obj" -> \A k \in DOMAIN x.v : Cloneable(x.v[k])
    [] OTHER -> TRUE

\* postMessage throws a SyntaxError on a target origin that is not a URL
ValidTargetOrigin(origin) == UrlHostname(origin) # <<>>

SelectionMessage(selectionState) ==
  Obj([type |-> Str(MESSAGE_TYPE),
       selection |-> selectionState,
       element |-> Coalesce(Get(selectionState, "primary"), Null)])

\* a target origin that does not depend on the window
PostTargetOrigin_Fixed(B, target, originOverride) == O_EXT

\* the origin postToPanel posts to
PostTargetOrigin(B, target, originOverride) ==
  IF originOverride # NoOrigin THEN originOverride
  ELSE IF target # NoWindow /\ B.subscriberOrigins[target] # NoOrigin THEN B.subscriberOrigins[target]
  ELSE B.trustedPanelOrigin

postToPanelOk(B, target, selectionState, originOverride) ==
  Then(PostTargetOrigin(B, target, originOverride), LAMBDA targetOrigin :
    /\ targetOrigin # NoOrigin
    /\ ValidTargetOrigin(targetOrigin)
    /\ Cloneable(SelectionMessage(selectionState)))

postToPanel(B, target, selectionState, originOverride) ==
  IF postToPanelOk(B, target, selectionState, originOverride)
  THEN [B EXCEPT !.posted = Append(@, [to |-> target,
                                       targetOrigin |-> PostTargetOrigin(B, target, originOverride),
                                       data |-> SelectionMessage(selectionState)])]
  ELSE B

RemoveFromSeq(s, x) == SelectSeq(s, LAMBDA y : y # x)

\* the body of subscribers.forEach in broadcastSelection, over the
\* subscribers not yet visited
RECURSIVE BroadcastEach(_, _, _)
BroadcastEach(B, todo, payload) ==
  IF todo = <<>> THEN B
  ELSE LET subscriber == Head(todo)
           origin == B.subscriberOrigins[subscriber]
       IN Then(CASE origin = NoOrigin ->
                      [B EXCEPT !.subscribers = RemoveFromSeq(@, subscriber)]
                 [] ~postToPanelOk(B, subscriber, payload, origin) ->
                      [B EXCEPT !.subscribers = RemoveFromSeq(@, subscriber),
                                !.subscriberOrigins[subscriber] = NoOrigin]
                 [] OTHER -> postToPanel(B, subscriber, payload, origin),
               LAMBDA B1 : Then(Tail(todo), LAMBDA rest : BroadcastEach(B1, rest, payload)))

\* broadcastSelection that retains the state and posts it to nobody
broadcastSelection_RetainOnly(B, selectionState) ==
  [B EXCEPT !.latestSelectionState = Coalesce(selectionState, createEmptySelectionState)]

broadcastSelection(B, selectionState) ==
  Then(Coalesce(selectionState, createEmptySelectionState), LAMBDA payload0 :
  Then(IF Get(payload0, "devMock").t # "bool"
       THEN SetField(payload0, "devMock", JBool(FALSE))
       ELSE payload0, LAMBDA payload :
  Then([B EXCEPT !.latestSelectionState = payload], LAMBDA B1 :
    BroadcastEach(B1, B1.subscribers, payload))))

\* maybeActivateDevMock that marks the mock active but never publishes it
maybeActivateDevMock_Silent(B, reason) ==
  IF ~DEV_ENVIRONMENT THEN B ELSE [B EXCEPT !.devMockActive = TRUE]

maybeActivateDevMock(B, reason) ==
  CASE ~DEV_ENVIRONMENT -> B
    [] B.devMockActive /\ Truthy(Get(B.latestSelectionState, "devMock")) -> B
    [] OTHER ->
         Then([B EXCEPT !.devMockActive = TRUE], LAMBDA B1 :
           broadcastSelection(B1, SetField(createDevSelectionState(reason), "devMockReason",
                                           Coalesce(reason, Null))))

registerSubscriber(B, event) ==
  IF event.source = NoWindow THEN B
  ELSE [B EXCEPT !.subscribers = IF \E i \in 1..Len(@) : @[i] = event.source
                                THEN @ ELSE Append(@, event.source),
                 !.subscriberOrigins[event.source] =
                    IF event.origin # NoOrigin THEN event.origin ELSE B.trustedPanelOrigin,
                 !.trustedPanelWindow = IF @ = NoWindow THEN event.source ELSE @]

isAllowedPanelOrigin(origin) ==
  CASE origin = NoOrigin -> FALSE
    [] DEV_ENVIRONMENT -> TRUE
    [] scriptOrigin # NoOrigin /\ origin = scriptOrigin -> TRUE
    [] OTHER -> \E suffix \in PANEL_HOST_SUFFIXES : HostMatchesSuffix(UrlHostname(origin), suffix)

\* isTrustedPanelMessage: the bridge state after the check (the check pins
\* the origin and the window as a side effect)
TrustCheckState(B, event) ==
  IF event.origin = NoOrigin \/ ~isAllowedPanelOrigin(event.origin) THEN B
  ELSE Then(IF ~B.panelOriginConfirmed
            THEN [B EXCEPT !.trustedPanelOrigin = event.origin, !.panelOriginConfirmed = TRUE]
            ELSE B, LAMBDA B1 :
         IF B1.trustedPanelOrigin # NoOrigin /\ event.origin # B1.trustedPanelOrigin THEN B1
         ELSE IF B1.trustedPanelWindow = NoWindow /\ event.source # NoWindow
              THEN [B1 EXCEPT !.trustedPanelWindow = event.source]
              ELSE B1)

\* isTrustedPanelMessage without the comparison against the pinned origin
isTrustedPanelMessage_AnyOrigin(B, event) ==
  Then(TrustCheckState(B, event), LAMBDA B1 :
    /\ event.origin # NoOrigin
    /\ isAllowedPanelOrigin(event.origin)
    /\ ~(B1.trustedPanelWindow # NoWindow /\ event.source # NoWindow
         /\ event.source # B1.trustedPanelWindow))

\* isTrustedPanelMessage: the value returned
isTrustedPanelMessage(B, event) ==
  Then(TrustCheckState(B, event), LAMBDA B1 :
    /\ event.origin # NoOrigin
    /\ isAllowedPanelOrigin(event.origin)
    /\ ~(B1.trustedPanelOrigin # NoOrigin /\ event.origin # B1.trustedPanelOrigin)
    /\ ~(B1.trustedPanelWindow # NoWindow /\ event.source # NoWindow
         /\ event.source # B1.trustedPanelWindow))

(***************************************************************************)
(* Host Bridge: host calls and their continuations                         *)
(***************************************************************************)
getCurrentDevice ==
  CASE hostRuntime.breakpoint = "mobile portrait" -> "mobile"
    [] hostRuntime.breakpoint = "tablet" -> "tablet"
    [] OTHER -> "desktop"

\* array.length of a JavaScript value (undefined counts as 0)
JsLength(x) == IF x.t = "arr" THEN Len(x.v) ELSE 0

\* latestSelectionState?.primary || latestSelectionState?.elements?.length
HasSelection(state) ==
  Truthy(Get(state, "primary")) \/ JsLength(Get(state, "elements")) > 0

\* A host call the bridge is waiting for. kind: "init" (fetchAndBroadcastSelection),
\* "ctx" (context-ready), "req" (subscribe/request), "poll", "resize".
\* stage: "runtime" (awaiting runtimePromise) or "getter" (awaiting the getter).
Task(kind, stage, event, raw) ==
  [kind |-> kind, stage |-> stage, source |-> event.source, origin |-> event.origin,
   size |-> event.size, raw |-> raw]

NoEvent == [origin |-> NoOrigin, source |-> NoWindow, type |-> "", size |-> Null]

sanitizePanelSize(size) ==
  IF ~Truthy(size) \/ ~IsObjectLike(size) THEN Null
  ELSE LET width == toPositiveNumber(Get(size, "width"))
           height == toPositiveNumber(Get(size, "height"))
       IN IF ~Truthy(width) \/ ~Truthy(height) THEN Null
          ELSE Obj([width |-> width, height |-> height])

requestExtensionPanelSize(B, size) ==
  IF hostRuntime.setExtensionSize \/ hostRuntime.resize
  THEN [B EXCEPT !.hostPanelSize = size]
  ELSE B

\* what the awaiting caller does with the fetched selection
FetchContinuation(B, task, selection) ==
  CASE task.kind \in {"init", "ctx"} -> broadcastSelection(B, selection)
    [] task.kind = "req" ->
         postToPanel(B, task.source, Coalesce(selection, Null),
                     IF B.subscriberOrigins[task.source] # NoOrigin
                     THEN B.subscriberOrigins[task.source]
                     ELSE IF task.origin # NoOrigin THEN task.origin ELSE B.trustedPanelOrigin)

\* a fallback that hands out the mock state outside development too
FetchFallback_AlwaysMock(B, task, reason) ==
  Then(maybeActivateDevMock(B, Str(reason)), LAMBDA B1 :
    FetchContinuation(B1, task, createDevSelectionState(Undef)))

\* fetchCurrentSelection without a usable runtime, or after a throwing call
FetchFallback(B, task, reason) ==
  IF DEV_ENVIRONMENT
  THEN Then(maybeActivateDevMock(B, Str(reason)), LAMBDA B1 :
         FetchContinuation(B1, task, createDevSelectionState(Undef)))
  ELSE FetchContinuation(B, task, createEmptySelectionState)

\* the code that runs once runtimePromise has settled with `resolved`
\* ("runtime" or "null"), for one awaiting task
AfterRuntime(B, task, resolved) ==
  CASE task.kind = "resize" ->
         IF resolved = "null" THEN B ELSE requestExtensionPanelSize(B, task.size)
    [] resolved = "null" -> FetchFallback(B, task, "runtime-missing")
    [] hostRuntime.getSelectedElements \/ hostRuntime.getSelectedElement ->
         [B EXCEPT !.pending = Append(@, [task EXCEPT !.stage = "getter", !.raw = hostSelection])]
    [] OTHER -> FetchFallback(B, task, "runtime-incomplete")

\* an await that looks for the runtime again once the discovery wait is over
StartTask_Reevaluates(B, task) ==
  IF runtimePromise = "pending"
  THEN [B EXCEPT !.pending = Append(@, task)]
  ELSE AfterRuntime(B, task, IF hostRuntime.present THEN "runtime" ELSE runtimePromise)

\* await runtimePromise: suspend while it is pending, go on otherwise
StartTask(B, task) ==
  IF runtimePromise = "pending"
  THEN [B EXCEPT !.pending = Append(@, task)]
  ELSE AfterRuntime(B, task, runtimePromise)

\* the value the getter hands to normalizeSelectionState
GetterArgument(raw) ==
  IF hostRuntime.getSelectedElements THEN OrElse(raw, Arr(<<>>)) ELSE Coalesce(raw, Null)

\* the getter call of a fetch or poll settles: outcome "ok" or "throws"
AfterGetter(B, task, outcome) ==
  CASE task.kind = "poll" /\ outcome = "throws" -> B
    [] task.kind = "poll" ->
         Then(normalizeSelectionState(OrElse(task.raw, Arr(<<>>)), layout, getCurrentDevice),
              LAMBDA normalized :
         Then(serializeSelectionState(normalized), LAMBDA signature :
           IF signature # B.lastPolledSignature
           THEN Then([B EXCEPT !.lastPolledSignature = signature], LAMBDA B1 :
                  broadcastSelection(B1, normalized))
           ELSE B))
    [] outcome = "throws" -> FetchFallback(B, task, "runtime-error")
    [] OTHER ->
         Then(normalizeSelectionState(GetterArgument(task.raw), layout, getCurrentDevice),
              LAMBDA normalized : FetchContinuation(B, task, normalized))

\* an attach that gives up a method at the first event name that throws
attach_StopsAtFirstThrow(attached, label) ==
  IF ~hostRuntime[label] THEN attached
  ELSE attached \cup {<<label, eventName>> : eventName \in
                        {n \in 1..SELECTION_EVENT_NAMES :
                           \A m \in 1..n : <<label, m>> \notin hostRuntime.attachThrows}}

\* attach(label, handler): one call per event name, each in its own try
attach(attached, label) ==
  IF ~hostRuntime[label] THEN attached
  ELSE attached \cup {<<label, eventName>> : eventName \in
                        {n \in 1..SELECTION_EVENT_NAMES : <<label, n>> \notin hostRuntime.attachThrows}}

subscribeToSelectionEvents(B) ==
  [B EXCEPT !.listeners = attach(B.listeners, "subscribe") \cup attach(B.listeners, "on")]

startSelectionPolling(B) ==
  CASE B.selectionPollTimer -> B
    [] ~(hostRuntime.getSelectedElements \/ hostRuntime.getSelectedElement) -> B
    [] OTHER -> [B EXCEPT !.selectionPollTimer = TRUE]

\* the callback handed to ready() in initSelectionBridge
ReadyCallback(B) ==
  Then(subscribeToSelectionEvents(B), LAMBDA B1 :
  Then(AfterRuntime(B1, Task("init", "runtime", NoEvent, Null), "runtime"), LAMBDA B2 :
    startSelectionPolling(B2)))

\* the then-callback of runtimePromise in initSelectionBridge
OnRuntimeSettled(B, resolved) ==
  Then(IF resolved = "runtime" /\ hostRuntime.designerScript
       THEN [B EXCEPT !.designerScriptSupported = TRUE] ELSE B, LAMBDA B1 :
  Then(IF ~B1.designerScriptSupported /\ DEV_ENVIRONMENT
       THEN maybeActivateDevMock(B1, Str("designerscript-unavailable")) ELSE B1, LAMBDA B2 :
    CASE resolved = "null" ->
           IF DEV_ENVIRONMENT THEN maybeActivateDevMock(B2, Str("runtime-unavailable")) ELSE B2
      [] hostRuntime.ready -> B2
      [] OTHER -> ReadyCallback(B2)))

\* the tasks awaiting runtimePromise resume in the order they suspended
RECURSIVE ResumeAwaiting(_, _, _)
ResumeAwaiting(B, todo, resolved) ==
  IF todo = <<>> THEN B
  ELSE Then(AfterRuntime(B, Head(todo), resolved), LAMBDA B1 :
       Then(Tail(todo), LAMBDA rest : ResumeAwaiting(B1, rest, resolved)))

\* runtimePromise settles: its then-callback runs, then every awaiting task
SettleRuntime(B0, resolved) ==
  Then(B0, LAMBDA B :
  Then(SelectSeq(B.pending, LAMBDA task : task.stage = "runtime"), LAMBDA awaiting :
  Then(SelectSeq(B.pending, LAMBDA task : task.stage # "runtime"), LAMBDA others :
  Then(OnRuntimeSettled([B EXCEPT !.pending = others], resolved), LAMBDA B1 :
    ResumeAwaiting(B1, awaiting, resolved)))))

\* a change handler that stays silent when the state is the one last broadcast
handleSelectionChange_OncePerState(B, payload) ==
  Then(normalizeSelectionState(payload, layout, getCurrentDevice), LAMBDA state :
    IF state = B.latestSelectionState THEN B
    ELSE Then(IF ~Truthy(Get(state, "devMock"))
              THEN [B EXCEPT !.devMockActive = FALSE, !.designerScriptSupported = TRUE]
              ELSE B, LAMBDA B1 :
           broadcastSelection(B1, state)))

handleSelectionChange(B, payload) ==
  Then(normalizeSelectionState(payload, layout, getCurrentDevice), LAMBDA state :
  Then(IF ~Truthy(Get(state, "devMock"))
       THEN [B EXCEPT !.devMockActive = FALSE, !.designerScriptSupported = TRUE]
       ELSE B, LAMBDA B1 :
    broadcastSelection(B1, state)))

handlePanelResizeRequest(B, event) ==
  Then(sanitizePanelSize(event.size), LAMBDA normalized :
    IF ~Truthy(normalized) THEN B
    ELSE StartTask(B, Task("resize", "runtime", [event EXCEPT !.size = normalized], Null)))

\* handlePanelMessage, up to its first suspension
handlePanelMessage(B0, event) ==
  Then(B0, LAMBDA B :
  Then(TrustCheckState(B, event), LAMBDA B1 :
    CASE ~isTrustedPanelMessage(B, event) -> B1
      [] event.type = CONTEXT_READY_EVENT ->
           Then(registerSubscriber(B1, event), LAMBDA B2 :
             IF ~HasSelection(B2.latestSelectionState)
             THEN StartTask(B2, Task("ctx", "runtime", event, Null))
             ELSE broadcastSelection(B2, B2.latestSelectionState))
      [] event.type = PANEL_RESIZE_MESSAGE -> handlePanelResizeRequest(B1, event)
      [] event.type \notin {SUBSCRIBE_MESSAGE, REQUEST_MESSAGE} -> B1
      [] event.source = NoWindow -> registerSubscriber(B1, event)
      [] OTHER ->
           Then(registerSubscriber(B1, event), LAMBDA B2 :
             IF HasSelection(B2.latestSelectionState)
             THEN FetchContinuation(B2, Task("req", "runtime", event, Null), B2.latestSelectionState)
             ELSE StartTask(B2, Task("req", "runtime", event, Null)))))

(***************************************************************************)
(* Host Bridge: initial state (the script has run to its end, and so have  *)
(* the microtasks it queued)                                               *)
(***************************************************************************)
\* the module-level statements of the bridge script, lines 332-351
LoadedBridge(origin, supported) ==
  Then([trustedPanelOrigin |-> origin,
        panelOriginConfirmed |-> origin # NoOrigin,
        trustedPanelWindow |-> NoWindow,
        subscribers |-> <<>>,
        subscriberOrigins |-> [w \in Windows |-> NoOrigin],
        latestSelectionState |-> createEmptySelectionState,
        selectionPollTimer |-> FALSE,
        lastPolledSignature |-> Null,
        devMockActive |-> FALSE,
        designerScriptSupported |-> supported,
        listeners |-> {},
        pending |-> <<>>,
        posted |-> <<>>,
        hostPanelSize |-> Null], LAMBDA B0 :
    IF ~supported /\ DEV_ENVIRONMENT
    THEN maybeActivateDevMock(B0, Str("designerscript-unavailable"))
    ELSE B0)

BridgeIs(result) ==
  \E B \in {result} :
  /\ trustedPanelOrigin = B.trustedPanelOrigin
  /\ panelOriginConfirmed = B.panelOriginConfirmed
  /\ trustedPanelWindow = B.trustedPanelWindow
  /\ subscribers = B.subscribers
  /\ subscriberOrigins = B.subscriberOrigins
  /\ latestSelectionState = B.latestSelectionState
  /\ selectionPollTimer = B.selectionPollTimer
  /\ lastPolledSignature = B.lastPolledSignature
  /\ devMockActive = B.devMockActive
  /\ designerScriptSupported = B.designerScriptSupported
  /\ listeners = B.listeners
  /\ pending = B.pending
  /\ posted = <<>>
  /\ hostPanelSize = B.hostPanelSize

InitBridge ==
  /\ DEV_ENVIRONMENT \in BOOLEAN
  /\ scriptOrigin \in {NoOrigin, O_SCRIPT}
  /\ hostRuntime \in RuntimeShapes \cup {NoRuntime}
  /\ hostSelection = P_NONE
  /\ layout = "wide"
  /\ runtimePromise = IF hostRuntime.present THEN "runtime" ELSE "pending"
  /\ initPhase = IF ~hostRuntime.present THEN "loaded"
                 ELSE IF hostRuntime.ready THEN "settled" ELSE "ready"
  /\ BridgeIs(IF hostRuntime.present
              THEN SettleRuntime(LoadedBridge(scriptOrigin, hostRuntime.require), "runtime")
              ELSE LoadedBridge(scriptOrigin, FALSE))
  /\ contacted = FALSE
  /\ budget = [messages |-> MaxMessages, hostChanges |-> MaxHostChanges,
               notifications |-> MaxNotifications]
  /\ RetryIdle
  /\ PanelIdle
  /\ step = [kind |-> "load"]

(***************************************************************************)
(* Host Bridge: actions                                                    *)
(***************************************************************************)
MessageTypes ==
  {SUBSCRIBE_MESSAGE, REQUEST_MESSAGE, CONTEXT_READY_EVENT, PANEL_RESIZE_MESSAGE, "riaa:unknown"}

PanelEvents ==
  {[origin |-> o, source |-> w, type |-> ty, size |-> sz] :
     o \in Origins \cup {NoOrigin}, w \in Windows \cup {NoWindow},
     ty \in MessageTypes, sz \in PanelSizes \cup {Null}}

EnvUnchanged == UNCHANGED <<DEV_ENVIRONMENT, scriptOrigin, hostSelection, layout>>

\* Windows are interchangeable: "w2" sends only after "w1" is known to the bridge.
FreshWindowsInOrder(event) ==
  event.source = "w2" => (trustedPanelWindow # NoWindow \/ Len(subscribers) > 0)

\* What the last delivered message was, relative to the state it met.
MessageStep(event) ==
  Then(BridgeState, LAMBDA B :
  Then(isTrustedPanelMessage(B, event), LAMBDA trusted :
    [kind |-> "message",
     type |-> event.type,
     trusted |-> trusted,
     acceptable |-> isAllowedPanelOrigin(event.origin),
     firstContact |-> ~contacted,
     originDiffers |-> panelOriginConfirmed /\ event.origin # trustedPanelOrigin,
     senderDiffers |-> trustedPanelWindow # NoWindow /\ event.source # trustedPanelWindow,
     hasSender |-> event.source # NoWindow,
     source |-> IF trusted THEN event.source ELSE NoWindow,
     pinsOrigin |-> TrustCheckState(B, event).trustedPanelOrigin = event.origin]))

\* a 'message' event reaches window: handlePanelMessage(event)
DeliverPanelMessage ==
  \E event \in PanelEvents :
    /\ (event.size # Null) <=> (event.type = PANEL_RESIZE_MESSAGE)
    /\ FreshWindowsInOrder(event)
    /\ event.origin = NoOrigin => (event.source = "w1" /\ event.type = SUBSCRIBE_MESSAGE)
    /\ budget.messages > 0
    \* an untrusted message is turned away before its type is read: a
    \* subscribe message stands for all of them
    /\ ~isTrustedPanelMessage(BridgeState, event) => event.type = SUBSCRIBE_MESSAGE
    /\ Len(pending) < MaxPending
    /\ BridgeBecomes(handlePanelMessage(BridgeState, event))
    /\ contacted' = (contacted \/ isAllowedPanelOrigin(event.origin))
    /\ budget' = [budget EXCEPT !.messages = @ - 1]
    /\ step' = MessageStep(event)
    /\ UNCHANGED <<hostRuntime, runtimePromise, initPhase>>
    /\ EnvUnchanged
    /\ UNCHANGED <<retryVars, panelVars>>

\* the host page defines window.webflow
RuntimeAppears ==
  \E shape \in LateRuntimeShapes :
    /\ ~hostRuntime.present
    /\ hostRuntime' = shape
    /\ posted' = <<>>
    /\ step' = [kind |-> "runtimeAppears"]
    /\ UNCHANGED <<trustedPanelOrigin, panelOriginConfirmed, trustedPanelWindow, subscribers,
                   subscriberOrigins, latestSelectionState, selectionPollTimer,
                   lastPolledSignature, devMockActive, designerScriptSupported, runtimePromise,
                   initPhase, listeners, pending, hostPanelSize, contacted, budget>>
    /\ EnvUnchanged
    /\ UNCHANGED <<retryVars, panelVars>>

\* the 50 ms interval of waitForRuntime finds the runtime
DiscoveryTick ==
  /\ runtimePromise = "pending"
  /\ hostRuntime.present
  /\ runtimePromise' = "runtime"
  /\ initPhase' = IF hostRuntime.ready THEN "settled" ELSE "ready"
  /\ BridgeBecomes(SettleRuntime(BridgeState, "runtime"))
  /\ step' = [kind |-> "discoveryTick"]
  /\ UNCHANGED <<hostRuntime, contacted, budget>>
  /\ EnvUnchanged
  /\ UNCHANGED <<retryVars, panelVars>>

\* the RUNTIME_WAIT_TIMEOUT timer of waitForRuntime fires
DiscoveryTimeout ==
  /\ runtimePromise = "pending"
  /\ runtimePromise' = "null"
  /\ initPhase' = "settled"
  /\ BridgeBecomes(SettleRuntime(BridgeState, "null"))
  /\ step' = [kind |-> "discoveryTimeout"]
  /\ UNCHANGED <<hostRuntime, contacted, budget>>
  /\ EnvUnchanged
  /\ UNCHANGED <<retryVars, panelVars>>

\* the host runs the callback it was given through runtime.ready
HostReady ==
  /\ runtimePromise = "runtime"
  /\ initPhase = "settled"
  /\ initPhase' = "ready"
  /\ BridgeBecomes(ReadyCallback(BridgeState))
  /\ step' = [kind |-> "hostReady"]
  /\ UNCHANGED <<hostRuntime, runtimePromise, contacted, budget>>
  /\ EnvUnchanged
  /\ UNCHANGED <<retryVars, panelVars>>

\* the user selects something else in the Designer
HostSelects ==
  \E payload \in RawPayloads :
    /\ budget.hostChanges > 0
    /\ payload # hostSelection
    /\ hostSelection' = payload
    /\ budget' = [budget EXCEPT !.hostChanges = @ - 1]
    /\ posted' = <<>>
    /\ step' = [kind |-> "hostSelects"]
    /\ UNCHANGED <<trustedPanelOrigin, panelOriginConfirmed, trustedPanelWindow, subscribers,
                   subscriberOrigins, latestSelectionState, selectionPollTimer,
                   lastPolledSignature, devMockActive, designerScriptSupported, hostRuntime,
                   runtimePromise, initPhase, listeners, pending, hostPanelSize, contacted>>
    /\ UNCHANGED <<DEV_ENVIRONMENT, scriptOrigin, layout>>
    /\ UNCHANGED <<retryVars, panelVars>>

\* the Designer canvas is resized
LayoutChanges ==
  \E l \in Layouts :
    /\ budget.hostChanges > 0
    /\ l # layout
    /\ layout' = l
    /\ budget' = [budget EXCEPT !.hostChanges = @ - 1]
    /\ posted' = <<>>
    /\ step' = [kind |-> "layoutChanges"]
    /\ UNCHANGED <<trustedPanelOrigin, panelOriginConfirmed, trustedPanelWindow, subscribers,
                   subscriberOrigins, latestSelectionState, selectionPollTimer,
                   lastPolledSignature, devMockActive, designerScriptSupported, hostRuntime,
                   runtimePromise, initPhase, listeners, pending, hostPanelSize, contacted>>
    /\ UNCHANGED <<DEV_ENVIRONMENT, scriptOrigin, hostSelection>>
    /\ UNCHANGED <<retryVars, panelVars>>

\* the host notifies one attached listener: handleSelectionEvent(name, payload)
SelectionEvent ==
  /\ listeners # {}
  /\ budget.notifications > 0
  /\ BridgeBecomes(handleSelectionChange(BridgeState, hostSelection))
  /\ budget' = [budget EXCEPT !.notifications = @ - 1]
  /\ step' = [kind |-> "selectionEvent"]
  /\ UNCHANGED <<hostRuntime, runtimePromise, initPhase, contacted>>
  /\ EnvUnchanged
  /\ UNCHANGED <<retryVars, panelVars>>

\* the poll interval fires: the getter is called and awaited
PollTick ==
  /\ selectionPollTimer
  /\ budget.notifications > 0
  /\ Len(pending) < MaxPending
  /\ BridgeBecomes([BridgeState EXCEPT
                      !.pending = Append(@, Task("poll", "getter", NoEvent, hostSelection))])
  /\ budget' = [budget EXCEPT !.notifications = @ - 1]
  /\ step' = [kind |-> "pollTick"]
  /\ UNCHANGED <<hostRuntime, runtimePromise, initPhase, contacted>>
  /\ EnvUnchanged
  /\ UNCHANGED <<retryVars, panelVars>>

\* an awaited getter call returns or throws
HostCallSettles ==
  \E i \in 1..Len(pending), outcome \in {"ok", "throws"} :
    /\ pending[i].stage = "getter"
    /\ BridgeBecomes(AfterGetter([BridgeState EXCEPT
                                    !.pending = SubSeq(@, 1, i - 1) \o SubSeq(@, i + 1, Len(@))],
                                 pending[i], outcome))
    /\ step' = [kind |-> "hostCallSettles", task |-> pending[i].kind, outcome |-> outcome]
    /\ UNCHANGED <<hostRuntime, runtimePromise, initPhase, contacted, budget>>
    /\ EnvUnchanged
    /\ UNCHANGED <<retryVars, panelVars>>

NextBridge ==
  \/ DeliverPanelMessage
  \/ RuntimeAppears
  \/ DiscoveryTick
  \/ DiscoveryTimeout
  \/ HostReady
  \/ HostSelects
  \/ LayoutChanges
  \/ SelectionEvent
  \/ PollTick
  \/ HostCallSettles

SpecBridge == InitBridge /\ [][NextBridge]_<<DEV_ENVIRONMENT, step, bridgeVars, retryVars, panelVars>>

(***************************************************************************)
(* Host Bridge: properties                                                 *)
(***************************************************************************)
bridgeAll == <<DEV_ENVIRONMENT, step, bridgeVars>>

MessageDelivered == step'.kind = "message"

\* the handler returned without touching the bridge and without posting
BridgeUntouched ==
  /\ UNCHANGED <<subscribers, subscriberOrigins, latestSelectionState, pending, hostPanelSize>>
  /\ posted' = <<>>

\* C1: once a trusted panel origin is pinned it never changes, and every later
\* message from another origin is rejected: handlePanelMessage returns without
\* changing the subscribers, their origins or latestSelectionState and without
\* posting anything.
C1_PinnedOriginRejectsOthers ==
  [][/\ panelOriginConfirmed =>
          (panelOriginConfirmed' /\ trustedPanelOrigin' = trustedPanelOrigin)
     /\ (MessageDelivered /\ step'.originDiffers) => (~step'.trusted /\ BridgeUntouched)
    ]_bridgeAll

\* a second panel message, from an acceptable origin other than the pinned
\* one, has just been turned away while a subscriber is registered
C1_Witness ==
  /\ step.kind = "message"
  /\ step.originDiffers
  /\ step.acceptable
  /\ ~step.trusted
  /\ Len(subscribers) > 0

\* C2 (as claimed): once the panel window is pinned, every message from the
\* trusted origin whose sender is not that window, a message without a sender
\* window included, is rejected and leaves the bridge unchanged.
C2_PinnedWindowOnly ==
  [][(MessageDelivered /\ step'.senderDiffers /\ step'.acceptable /\ ~step'.originDiffers)
       => (~step'.trusted /\ BridgeUntouched)]_bridgeAll

\* C3 (as claimed): outside development the first message from an acceptable
\* origin (the script origin or an allow-listed host) is accepted and pins that
\* origin, whether or not it is the script origin.
C3_FirstAcceptableOriginPins ==
  (/\ ~DEV_ENVIRONMENT
   /\ step.kind = "message"
   /\ step.firstContact
   /\ step.acceptable) => (step.trusted /\ step.pinsOrigin)

\* every selection state the last handler posted, and the retained one
StatesOut ==
  {latestSelectionState} \cup {Get(posted[i].data, "selection") : i \in 1..Len(posted)}

PrimaryIsFirstElement(state) ==
  LET elements == Get(state, "elements")
      primary == Get(state, "primary")
  IN \/ IsNullish(primary)
     \/ (JsLength(elements) > 0 /\ primary = elements.v[1])

\* C5 (as claimed): in every state the bridge retains or sends, primary is
\* absent or equal to elements[0], and empty elements imply an absent primary.
C5_PrimaryIsFirstElement == \A state \in StatesOut : PrimaryIsFirstElement(state)

\* absent, null, or a positive whole number of pixels
IsPixelWidth(x) == IsNullish(x) \/ (x.t = "num" /\ x.v > 0 /\ x.v % 10 = 0)

DescriptorWidthsOk(element) ==
  /\ \A k \in {"desktop", "tablet", "mobile"} : IsPixelWidth(Get(Get(element, "widths"), k))
  /\ \A k \in {"desktop", "mobile"} : IsPixelWidth(Get(Get(element, "computedWidths"), k))
  /\ IsPixelWidth(Get(element, "computedWidthDesktop"))
  /\ IsPixelWidth(Get(element, "computedWidthMobile"))

\* the descriptors a posted message carries
DescriptorsOf(message) ==
  LET selection == Get(message, "selection")
      elements == Get(selection, "elements")
  IN {Get(message, "element"), Get(selection, "primary")}
       \cup {elements.v[i] : i \in 1..JsLength(elements)}

\* C6 (as claimed): every width in every descriptor the bridge posts is absent,
\* null or a positive integer.
C6_BroadcastWidthsArePixels ==
  \A i \in 1..Len(posted) : \A element \in DescriptorsOf(posted[i].data) : DescriptorWidthsOk(element)

IsFixedMock(state) ==
  /\ Get(state, "devMock") = JBool(TRUE)
  /\ JsLength(Get(state, "elements")) = 1
  /\ Get(state, "primary") = Get(state, "elements").v[1]
  /\ Get(Get(state, "primary"), "tagName") = Str("img")
  /\ Get(Get(state, "primary"), "widths") = Obj([desktop |-> Px(640), mobile |-> Px(320)])

C8_NoMockOutsideDevelopment ==
  ~DEV_ENVIRONMENT => \A state \in StatesOut : ~Truthy(Get(state, "devMock"))

PollSettled == step'.kind = "hostCallSettles" /\ step'.task = "poll"

\* C9 (as claimed): a poll tick posts only if the polled state's signature
\* differs from the signature of the state broadcast last (the retained one).
C9_PollBroadcastsOnlyOnChange ==
  [][(PollSettled /\ posted' # <<>>) =>
       serializeSelectionState(latestSelectionState') # serializeSelectionState(latestSelectionState)
    ]_bridgeAll

(***************************************************************************)
(* Panel Controllers: what both share                                      *)
(***************************************************************************)
SELECTION_MESSAGE_TYPE == "element-selected"

SUBSCRIBE_MESSAGE_TYPE == "riaa:selection:subscribe"

REQUEST_MESSAGE_TYPE == "riaa:selection:request"

CONTEXT_READY_MESSAGE_TYPE == "riaa:context-ready"

toFiniteNumber(value) ==
  CASE value.t = "num" /\ value.v > 0 -> value
    [] value.t = "str" ->
         LET parsed == ParseFloat(value.v)
         IN IF parsed.t = "num" /\ parsed.v > 0 THEN parsed ELSE Null
    [] OTHER -> Null

deriveMeasuredWidths(selection) ==
  LET widths == Get(selection, "widths")
      computedDesktop == Coalesce(toFiniteNumber(Get(selection, "computedWidthDesktop")),
                                  toFiniteNumber(Get(Get(selection, "computedWidths"), "desktop")))
      computedMobile == Coalesce(toFiniteNumber(Get(selection, "computedWidthMobile")),
                                 toFiniteNumber(Get(Get(selection, "computedWidths"), "mobile")))
  IN CASE ~Truthy(selection) -> Null
       [] Truthy(widths) /\ (Truthy(Get(widths, "desktop")) \/ Truthy(Get(widths, "mobile"))) ->
            Obj([desktop |-> Coalesce(toFiniteNumber(Get(widths, "desktop")),
                                      toFiniteNumber(Get(widths, "mobile"))),
                 mobile |-> Coalesce(toFiniteNumber(Get(widths, "mobile")),
                                     toFiniteNumber(Get(widths, "desktop")))])
       [] ~Truthy(computedDesktop) /\ ~Truthy(computedMobile) -> Null
       [] OTHER ->
            Obj([desktop |-> Coalesce(computedDesktop, Coalesce(computedMobile, Null)),
                 mobile |-> Coalesce(computedMobile, Coalesce(computedDesktop, Null))])

\* formatPixelValue: Number.isFinite(value) ? `${Math.round(value)}px` : '--'
formatPixelValue(value) ==
  IF value.t = "num" THEN [px |-> MathRound(value.v) \div 10] ELSE [px |-> -1]

\* value * 2 on a number
Twice(value) == Num(value.v * 2)

\* the three sizes renderResults writes into the results card
renderResults(recommendations, measuredWidths) ==
  LET desktopMeasured == Coalesce(toFiniteNumber(Get(measuredWidths, "desktop")),
                                  toFiniteNumber(Get(measuredWidths, "mobile")))
      mobileMeasured == Coalesce(toFiniteNumber(Get(measuredWidths, "mobile")), desktopMeasured)
      universalFallback == IF Truthy(desktopMeasured) THEN Twice(desktopMeasured)
                           ELSE IF Truthy(mobileMeasured) THEN Twice(mobileMeasured) ELSE Null
  IN [universal |-> formatPixelValue(Coalesce(Get(recommendations, "universalUploadSize"),
                                              universalFallback)),
      desktop |-> formatPixelValue(Coalesce(Get(recommendations, "desktopRenderSize"),
                                            desktopMeasured)),
      mobile |-> formatPixelValue(Coalesce(Get(recommendations, "mobileRenderSize"),
                                           mobileMeasured))]

\* the text updateSelectedLabel shows for an element: `${tag}${idPart}`
ElementLabel(metadata) ==
  (IF Truthy(Get(metadata, "tagName")) THEN ToLowerCase(Get(metadata, "tagName").v) ELSE "element")
    \o (IF Truthy(Get(metadata, "id")) THEN "#" \o Get(metadata, "id").v ELSE "")

\* descriptors a host can put into a selection message
E_WIDTHS ==
  Obj([id |-> Str("a"), tagName |-> Str("img"), selector |-> Str("img.photo"),
       widths |-> Obj([desktop |-> Px(640), mobile |-> Px(320)]),
       computedWidths |-> Obj([desktop |-> Px(641), mobile |-> Px(641)]),
       computedWidthDesktop |-> Px(641), computedWidthMobile |-> Px(641)])

E_COMPUTED ==
  Obj([id |-> Null, tagName |-> Str("IMG"), selector |-> Str("img.photo"),
       computedWidths |-> Obj([desktop |-> Px(320), mobile |-> Px(800)]),
       computedWidthDesktop |-> Px(320), computedWidthMobile |-> Px(800)])

E_UNMEASURED ==
  Obj([id |-> Str("hero"), tagName |-> Null, selector |-> Str("#hero"),
       computedWidths |-> Obj([desktop |-> Null, mobile |-> Null]),
       computedWidthDesktop |-> Null, computedWidthMobile |-> Null])

\* a descriptor whose host-supplied widths are not positive numbers
E_BADWIDTHS ==
  Obj([id |-> Str("b"), tagName |-> Str("img"), selector |-> Null,
       widths |-> Obj([desktop |-> Num(-50), mobile |-> NaN]),
       computedWidths |-> Obj([desktop |-> Null, mobile |-> Null]),
       computedWidthDesktop |-> Null, computedWidthMobile |-> Null])

PanelElements == {E_WIDTHS, E_COMPUTED, E_UNMEASURED, E_BADWIDTHS}

\* bodies of a 2xx response of the recommendation endpoint
Recommendations ==
  {EmptyObj, Obj([universalUploadSize |-> Px(2000), desktopRenderSize |-> Px(1000),
                  mobileRenderSize |-> Num(5004)])}

(***************************************************************************)
(* Retrying Panel Controller (src/unnamed/part_002 lines 1-309)            *)
(***************************************************************************)
MAX_HANDSHAKE_ATTEMPTS == 30

\* clicks on the refresh button in one run
MaxRefreshes == 2

\* the handshake globals as one value
HandshakeState ==
  [handshakeTimer |-> handshakeTimer, handshakeAttempts |-> handshakeAttempts,
   handshakeComplete |-> handshakeComplete, liveTimers |-> liveTimers,
   roundsSinceReset |-> roundsSinceReset]

HandshakeBecomes(result) ==
  \E H \in {result} :
  /\ handshakeTimer' = H.handshakeTimer
  /\ handshakeAttempts' = H.handshakeAttempts
  /\ handshakeComplete' = H.handshakeComplete
  /\ liveTimers' = H.liveTimers
  /\ roundsSinceReset' = H.roundsSinceReset

\* window.setInterval hands out a handle not in use
NewTimer(live) == CHOOSE id \in 1..(Cardinality(live) + 1) : id \notin live

\* startHandshakeRetries without the check for a running timer
startHandshakeRetries_NoTimerCheck(H, force) ==
  IF H.handshakeComplete /\ ~force THEN H
  ELSE [H EXCEPT !.handshakeAttempts = IF force THEN 0 ELSE @,
                 !.roundsSinceReset = IF force THEN 0 ELSE @,
                 !.handshakeTimer = NewTimer(H.liveTimers),
                 !.liveTimers = @ \cup {NewTimer(H.liveTimers)}]

startHandshakeRetries(H, force) ==
  CASE H.handshakeTimer # 0 -> H
    [] H.handshakeComplete /\ ~force -> H
    [] OTHER ->
         [H EXCEPT !.handshakeAttempts = IF force THEN 0 ELSE @,
                   !.roundsSinceReset = IF force THEN 0 ELSE @,
                   !.handshakeTimer = NewTimer(H.liveTimers),
                   !.liveTimers = @ \cup {NewTimer(H.liveTimers)}]

\* stopHandshakeRetries that leaves the interval running
stopHandshakeRetries_Keep(H) == H

stopHandshakeRetries(H) ==
  IF H.handshakeTimer = 0 THEN H
  ELSE [H EXCEPT !.liveTimers = @ \ {H.handshakeTimer}, !.handshakeTimer = 0]

\* requestSelectionUpdate(initial)
requestSelectionUpdate(initial) ==
  IF initial THEN SUBSCRIBE_MESSAGE_TYPE ELSE REQUEST_MESSAGE_TYPE

\* an interval callback that goes on past MAX_HANDSHAKE_ATTEMPTS
HandshakeTick_NoCap(H) ==
  IF H.handshakeComplete
  THEN stopHandshakeRetries(H)
  ELSE [H EXCEPT !.handshakeAttempts = @ + 1, !.roundsSinceReset = @ + 1]

\* the interval callback of startHandshakeRetries: the handshake state after it
HandshakeTick(H) ==
  IF H.handshakeComplete \/ H.handshakeAttempts >= MAX_HANDSHAKE_ATTEMPTS
  THEN stopHandshakeRetries(H)
  ELSE [H EXCEPT !.handshakeAttempts = @ + 1, !.roundsSinceReset = @ + 1]

\* the interval callback of startHandshakeRetries: the messages it posts
HandshakeTickMessages(H) ==
  IF H.handshakeComplete \/ H.handshakeAttempts >= MAX_HANDSHAKE_ATTEMPTS
  THEN <<>>
  ELSE <<requestSelectionUpdate(H.handshakeAttempts + 1 = 1), CONTEXT_READY_MESSAGE_TYPE>>

\* updateSelectionUI of the retrying panel
updateSelectionUIRetry(ui, selected) ==
  CASE ~Truthy(selected) ->
         [ui EXCEPT !.label = "Nothing selected", !.resultsHidden = TRUE,
                    !.status = "No element selected."]
    [] ~Truthy(deriveMeasuredWidths(selected)) ->
         [ui EXCEPT !.label = ElementLabel(selected),
                    !.status = "Waiting for rendered widths from Designer..."]
    [] Truthy(Get(selected, "widths")) ->
         [ui EXCEPT !.label = ElementLabel(selected), !.status = "Ready to analyze."]
    [] OTHER ->
         [ui EXCEPT !.label = ElementLabel(selected),
                    !.status = "Ready (using measured width from Designer viewport)."]

BridgeIdle ==
  /\ scriptOrigin = NoOrigin
  /\ hostRuntime = NoRuntime
  /\ hostSelection = P_NONE
  /\ layout = "wide"
  /\ runtimePromise = "null"
  /\ initPhase = "settled"
  /\ BridgeIs(LoadedBridge(NoOrigin, TRUE))
  /\ contacted = FALSE
  /\ budget = [messages |-> 0, hostChanges |-> 0, notifications |-> 0]

\* initPanel has run
InitRetry ==
  /\ DEV_ENVIRONMENT = FALSE
  /\ BridgeIdle
  /\ PanelIdle
  /\ currentSelectedRetry = Null
  /\ handshakeComplete = FALSE
  /\ handshakeAttempts = 0
  /\ roundsSinceReset = 0
  /\ \E H \in {startHandshakeRetries([handshakeTimer |-> 0, handshakeAttempts |-> 0,
                                      handshakeComplete |-> FALSE, liveTimers |-> {},
                                      roundsSinceReset |-> 0], FALSE)} :
        /\ handshakeTimer = H.handshakeTimer
        /\ liveTimers = H.liveTimers
  /\ \E hidden \in BOOLEAN :
        retryUi = [status |-> "Waiting for a selection in the Designer...", label |-> "",
                   resultsHidden |-> hidden, results |-> Null, analyzeDisabled |-> FALSE]
  /\ retryRequest = Null
  /\ sentToHost = <<requestSelectionUpdate(TRUE), CONTEXT_READY_MESSAGE_TYPE>>
  /\ refreshes = 0
  /\ step = [kind |-> "load"]

\* one interval of the retry loop fires
RetryTick ==
  \E timer \in liveTimers :
    /\ HandshakeBecomes(HandshakeTick(HandshakeState))
    /\ sentToHost' = HandshakeTickMessages(HandshakeState)
    /\ step' = [kind |-> "retryTick"]
    /\ UNCHANGED <<currentSelectedRetry, retryUi, retryRequest, refreshes>>
    /\ UNCHANGED <<DEV_ENVIRONMENT, bridgeVars, panelVars>>

\* a 'message' event reaches the panel: handleSelectionMessage(event)
RetrySelectionMessage ==
  \E type \in {SELECTION_MESSAGE_TYPE, "other"}, element \in PanelElements \cup {Null} :
    /\ IF type # SELECTION_MESSAGE_TYPE
       THEN UNCHANGED <<currentSelectedRetry, handshakeTimer, handshakeAttempts,
                        handshakeComplete, liveTimers, roundsSinceReset, retryUi>>
       ELSE /\ currentSelectedRetry' = OrElse(element, Null)
            /\ HandshakeBecomes(stopHandshakeRetries([HandshakeState EXCEPT !.handshakeComplete = TRUE]))
            /\ retryUi' = updateSelectionUIRetry(retryUi, OrElse(element, Null))
    /\ sentToHost' = <<>>
    /\ step' = [kind |-> "selectionMessage", type |-> type]
    /\ UNCHANGED <<retryRequest, refreshes>>
    /\ UNCHANGED <<DEV_ENVIRONMENT, bridgeVars, panelVars>>

\* click on the refresh button: refreshSelectionLabel(); requestSelectionUpdate(false)
RetryRefreshClick ==
  /\ refreshes < MaxRefreshes
  /\ refreshes' = refreshes + 1
  /\ HandshakeBecomes(startHandshakeRetries([HandshakeState EXCEPT !.handshakeComplete = FALSE], TRUE))
  /\ retryUi' = updateSelectionUIRetry(retryUi, currentSelectedRetry)
  /\ sentToHost' = <<requestSelectionUpdate(FALSE)>>
  /\ step' = [kind |-> "refresh"]
  /\ UNCHANGED <<currentSelectedRetry, retryRequest>>
  /\ UNCHANGED <<DEV_ENVIRONMENT, bridgeVars, panelVars>>

\* click on the Analyze button: handleAnalyzeClick up to its await
RetryAnalyzeClick ==
  /\ ~retryUi.analyzeDisabled
  /\ LET measuredWidths == deriveMeasuredWidths(currentSelectedRetry)
     IN CASE ~Truthy(currentSelectedRetry) ->
               /\ retryUi' = [retryUi EXCEPT !.resultsHidden = TRUE,
                                !.status = "Select an image element in the Designer first."]
               /\ retryRequest' = Null
          [] ~Truthy(measuredWidths) ->
               /\ retryUi' = [retryUi EXCEPT !.resultsHidden = TRUE,
                                !.status = "Unable to determine rendered widths for the selected element."]
               /\ retryRequest' = Null
          [] OTHER ->
               /\ retryUi' = [retryUi EXCEPT !.analyzeDisabled = TRUE,
                                !.status = "Sending widths to AI backend..."]
               /\ retryRequest' = measuredWidths
  /\ sentToHost' = <<>>
  /\ step' = [kind |-> "analyzeClick"]
  /\ UNCHANGED <<currentSelectedRetry, handshakeTimer, handshakeAttempts, handshakeComplete,
                 liveTimers, roundsSinceReset, refreshes>>
  /\ UNCHANGED <<DEV_ENVIRONMENT, bridgeVars, panelVars>>

\* the recommendation request settles: a 2xx body, or a failure
RetryAnalyzeSettles ==
  /\ retryRequest # Null
  /\ \/ \E recommendations \in Recommendations :
          retryUi' = [retryUi EXCEPT !.results = renderResults(recommendations, retryRequest),
                                     !.resultsHidden = FALSE,
                                     !.status = "Analysis complete.",
                                     !.analyzeDisabled = FALSE]
     \/ retryUi' = [retryUi EXCEPT !.resultsHidden = TRUE,
                                   !.status = "The AI backend returned an error.",
                                   !.analyzeDisabled = FALSE]
  /\ retryRequest' = Null
  /\ sentToHost' = <<>>
  /\ step' = [kind |-> "analyzeSettles"]
  /\ UNCHANGED <<currentSelectedRetry, handshakeTimer, handshakeAttempts, handshakeComplete,
                 liveTimers, roundsSinceReset, refreshes>>
  /\ UNCHANGED <<DEV_ENVIRONMENT, bridgeVars, panelVars>>

NextRetry ==
  \/ RetryTick
  \/ RetrySelectionMessage
  \/ RetryRefreshClick
  \/ RetryAnalyzeClick
  \/ RetryAnalyzeSettles

retryAll == <<DEV_ENVIRONMENT, step, bridgeVars, retryVars, panelVars>>

SpecRetry == InitRetry /\ [][NextRetry]_retryAll

\* C10: on load the panel posts subscribe, then context-ready, and starts the
\* retry loop; handshakeAttempts never exceeds 30, no more than 30 retry rounds
\* (subscribe on the first, request afterwards, each followed by context-ready)
\* are posted between two resets, and at most one retry timer is alive.
C10_HandshakeIsCapped ==
  /\ handshakeAttempts <= MAX_HANDSHAKE_ATTEMPTS
  /\ roundsSinceReset <= MAX_HANDSHAKE_ATTEMPTS
  /\ Cardinality(liveTimers) <= 1
  /\ liveTimers = IF handshakeTimer = 0 THEN {} ELSE {handshakeTimer}
  /\ step.kind = "load" =>
       /\ sentToHost = <<SUBSCRIBE_MESSAGE_TYPE, CONTEXT_READY_MESSAGE_TYPE>>
       /\ handshakeTimer # 0
  /\ (step.kind = "retryTick" /\ sentToHost # <<>>) =>
       sentToHost = <<IF handshakeAttempts = 1 THEN SUBSCRIBE_MESSAGE_TYPE
                      ELSE REQUEST_MESSAGE_TYPE, CONTEXT_READY_MESSAGE_TYPE>>

\* the thirtieth retry round after a refresh has been posted, and the loop
\* is still the only timer
C10_Witness ==
  /\ refreshes > 0
  /\ handshakeAttempts = MAX_HANDSHAKE_ATTEMPTS
  /\ step.kind = "retryTick"
  /\ sentToHost # <<>>
  /\ Cardinality(liveTimers) = 1

RetrySelectionDelivered == step'.kind = "selectionMessage" /\ step'.type = SELECTION_MESSAGE_TYPE

\* C11: a selection message leaves the retrying panel with no element
\* (status "No element selected.") or with the element of the message, marks
\* the handshake complete and cancels the retry loop; while the handshake is
\* complete nothing is posted to the host except by a click on refresh.
C11_SelectionEndsHandshake ==
  [][/\ RetrySelectionDelivered =>
          /\ handshakeComplete'
          /\ handshakeTimer' = 0
          /\ liveTimers' = {}
          /\ sentToHost' = <<>>
          /\ (retryUi'.status = "No element selected.") <=> ~Truthy(currentSelectedRetry')
     /\ (handshakeComplete /\ sentToHost' # <<>>) => step'.kind = "refresh"
     /\ (handshakeComplete /\ step'.kind # "refresh") => handshakeComplete'
    ]_retryAll

\* a selection message with an element arrived after retry rounds were sent
C11_Witness ==
  /\ step.kind = "selectionMessage"
  /\ step.type = SELECTION_MESSAGE_TYPE
  /\ handshakeAttempts > 1
  /\ handshakeComplete
  /\ Truthy(currentSelectedRetry)

(***************************************************************************)
(* Origin-checking Panel Controller (src/public/panel.js lines 1-590)      *)
(***************************************************************************)
PANEL_RESIZE_MESSAGE_TYPE == "riaa:panel:resize"

KNOWN_WEBFLOW_ORIGINS == <<"https://webflow.com", "https://app.webflow.com">>

WEBFLOW_DOMAIN == <<"webflow", "com">>

H_ROOT == "https://webflow.com"

H_APP == "https://app.webflow.com"

H_EVIL == "https://evilwebflow.com"

HostOrigins == {H_ROOT, H_APP, H_EVIL}

\* the panel globals as one value
PanelState ==
  [designerMessageWindow |-> designerMessageWindow,
   trustedDesignerOrigin |-> trustedDesignerOrigin,
   designerOriginConfirmed |-> designerOriginConfirmed,
   currentSelectionState |-> currentSelectionState,
   currentSelected |-> currentSelected,
   devMockSelectionActive |-> devMockSelectionActive,
   analyzeProcessing |-> analyzeProcessing,
   analyzeSelectionReady |-> analyzeSelectionReady,
   ui |-> panelUi]

PanelBecomes(result) ==
  \E P \in {result} :
  /\ designerMessageWindow' = P.designerMessageWindow
  /\ trustedDesignerOrigin' = P.trustedDesignerOrigin
  /\ designerOriginConfirmed' = P.designerOriginConfirmed
  /\ currentSelectionState' = P.currentSelectionState
  /\ currentSelected' = P.currentSelected
  /\ devMockSelectionActive' = P.devMockSelectionActive
  /\ analyzeProcessing' = P.analyzeProcessing
  /\ analyzeSelectionReady' = P.analyzeSelectionReady
  /\ panelUi' = P.ui

PanelIs(result) ==
  \E P \in {result} :
  /\ designerMessageWindow = P.designerMessageWindow
  /\ trustedDesignerOrigin = P.trustedDesignerOrigin
  /\ designerOriginConfirmed = P.designerOriginConfirmed
  /\ currentSelectionState = P.currentSelectionState
  /\ currentSelected = P.currentSelected
  /\ devMockSelectionActive = P.devMockSelectionActive
  /\ analyzeProcessing = P.analyzeProcessing
  /\ analyzeSelectionReady = P.analyzeSelectionReady
  /\ panelUi = P.ui

isAllowedHostOrigin(origin) ==
  CASE origin = NoOrigin -> FALSE
    [] DEV_ENVIRONMENT -> TRUE
    [] OTHER -> HostMatchesSuffix(UrlHostname(origin), WEBFLOW_DOMAIN)

\* event.origin || event.data?.origin || null
EventOrigin(event) == IF event.origin # NoOrigin THEN event.origin ELSE event.dataOrigin

\* isTrustedDesignerMessage: the panel state after the check (the check pins
\* the origin and the window as a side effect)
DesignerCheckState(P, event) ==
  LET origin == EventOrigin(event)
  IN IF origin = NoOrigin \/ ~isAllowedHostOrigin(origin) THEN P
     ELSE Then(IF ~P.designerOriginConfirmed
               THEN [P EXCEPT !.trustedDesignerOrigin = origin,
                              !.designerOriginConfirmed = TRUE]
               ELSE P, LAMBDA P1 :
            IF P1.trustedDesignerOrigin # origin THEN P1
            ELSE IF P1.designerMessageWindow # NoWindow /\ event.source # NoWindow
                    /\ event.source # P1.designerMessageWindow
                 THEN P1
                 ELSE IF P1.designerMessageWindow = NoWindow /\ event.source # NoWindow
                      THEN [P1 EXCEPT !.designerMessageWindow = event.source]
                      ELSE P1)

\* isTrustedDesignerMessage without the comparison against the pinned origin
isTrustedDesignerMessage_AnyOrigin(P, event) ==
  LET origin == EventOrigin(event)
  IN Then(DesignerCheckState(P, event), LAMBDA P1 :
       /\ origin # NoOrigin
       /\ isAllowedHostOrigin(origin)
       /\ ~(P1.designerMessageWindow # NoWindow /\ event.source # NoWindow
            /\ event.source # P1.designerMessageWindow))

\* isTrustedDesignerMessage: the value returned
isTrustedDesignerMessage(P, event) ==
  LET origin == EventOrigin(event)
  IN Then(DesignerCheckState(P, event), LAMBDA P1 :
       /\ origin # NoOrigin
       /\ isAllowedHostOrigin(origin)
       /\ P1.trustedDesignerOrigin = origin
       /\ ~(P1.designerMessageWindow # NoWindow /\ event.source # NoWindow
            /\ event.source # P1.designerMessageWindow))

RECURSIVE normalizeIncomingSelection(_)
normalizeIncomingSelection(payload) ==
  CASE ~Truthy(payload) -> Null
    [] IsArray(payload) ->
         LET elements == FilterTruthy(payload.v)
         IN Obj([elements |-> Arr(elements),
                 primary |-> IF elements = <<>> THEN Null ELSE Head(elements),
                 devMock |-> JBool(\E i \in 1..Len(payload.v) :
                                      Truthy(Get(payload.v[i], "devMock"))),
                 reason |-> Null])
    [] Truthy(Get(payload, "elements")) /\ Truthy(Get(payload, "primary")) ->
         LET raw == Get(payload, "elements")
             elements == IF IsArray(raw) THEN FilterTruthy(raw.v) ELSE FilterTruthy(<<raw>>)
             primary == Get(payload, "primary")
         IN Obj([elements |-> Arr(elements),
                 primary |-> primary,
                 devMock |-> JBool(Truthy(Get(payload, "devMock"))
                                   \/ Truthy(Get(primary, "devMock"))),
                 reason |-> Coalesce(Get(payload, "reason"),
                              Coalesce(Get(payload, "devMockReason"),
                                Coalesce(Get(primary, "reason"), Null)))])
    [] Truthy(Get(payload, "element")) -> normalizeIncomingSelection(Get(payload, "element"))
    [] OTHER ->
         LET element == Coalesce(Get(payload, "primary"), payload)
         IN IF ~Truthy(element) THEN Null
            ELSE
            Obj([elements |-> Arr(<<element>>),
                 primary |-> element,
                 devMock |-> JBool(Truthy(Get(element, "devMock"))
                                   \/ Truthy(Get(payload, "devMock"))),
                 reason |-> Coalesce(Get(payload, "reason"),
                              Coalesce(Get(payload, "devMockReason"),
                                Coalesce(Get(element, "reason"), Null)))])

\* a button state that looks at the selection only
syncAnalyzeButtonState_ReadyOnly(P) ==
  [P EXCEPT !.ui.analyzeDisabled = ~P.analyzeSelectionReady]

syncAnalyzeButtonState(P) ==
  [P EXCEPT !.ui.analyzeDisabled = P.analyzeProcessing \/ ~P.analyzeSelectionReady]

setAnalyzeReady(P, isReady) ==
  syncAnalyzeButtonState([P EXCEPT !.analyzeSelectionReady = isReady])

setAnalyzeProcessing(P, isProcessing) ==
  syncAnalyzeButtonState([P EXCEPT !.analyzeProcessing = isProcessing])

updateDevBadge(P) == [P EXCEPT !.ui.devBadgeHidden = ~DEV_ENVIRONMENT]

\* updateSelectedLabel of an element: `${tag}${idPart}${suffix}`, the suffix
\* kept as the count it prints (0 when there is no suffix)
updateSelectedLabel(metadata, selectionState) ==
  LET selectionCount == JsLength(Get(selectionState, "elements"))
  IN [text |-> ElementLabel(metadata),
      firstOf |-> IF selectionCount > 1 THEN selectionCount ELSE 0]

WaitingLabel == [text |-> "Waiting for a Designer selection...", firstOf |-> 0]

updateSelectionUI(P) ==
  LET hasSelection == Truthy(P.currentSelected)
      isDevMock == Truthy(Get(P.currentSelectionState, "devMock"))
  IN Then(setAnalyzeReady(P, hasSelection), LAMBDA P1 :
     Then([P1 EXCEPT !.ui.label =
             updateSelectedLabel(P.currentSelected, P.currentSelectionState)], LAMBDA labelled :
     CASE ~hasSelection ->
            [P1 EXCEPT !.ui.label = WaitingLabel, !.ui.resultsHidden = TRUE,
                       !.ui.status = "Waiting for a Designer selection..."]
       [] ~Truthy(deriveMeasuredWidths(P.currentSelected)) ->
            [labelled EXCEPT !.ui.status =
               "Waiting for rendered widths from the Designer runtime..."]
       [] isDevMock ->
            [labelled EXCEPT !.ui.resultsHidden = TRUE,
               !.ui.status = "DEV Mock Mode Active. Click Analyze to simulate results."]
       [] Truthy(Get(P.currentSelected, "widths")) ->
            [labelled EXCEPT !.ui.status = "Ready to analyze."]
       [] OTHER ->
            [labelled EXCEPT !.ui.status =
               "Ready (using measured width from Designer viewport)."]))

\* an applySelectionState that keeps the element it had when the new
\* state has none
applySelectionState_KeepsPrior(P, payload) ==
  Then(normalizeIncomingSelection(payload), LAMBDA nextState :
  Then(updateDevBadge(
         [P EXCEPT !.currentSelectionState = nextState,
                   !.currentSelected = Coalesce(Get(nextState, "primary"), P.currentSelected),
                   !.devMockSelectionActive = Truthy(Get(nextState, "devMock"))]), LAMBDA P1 :
    updateSelectionUI(P1)))

applySelectionState(P, payload) ==
  Then(normalizeIncomingSelection(payload), LAMBDA nextState :
  Then(updateDevBadge(
         [P EXCEPT !.currentSelectionState = nextState,
                   !.currentSelected = Coalesce(Get(nextState, "primary"), Null),
                   !.devMockSelectionActive = Truthy(Get(nextState, "devMock"))]), LAMBDA P1 :
    updateSelectionUI(P1)))

\* handleSelectionMessage on a MessageEvent ('data' and 'origin' in event)
handleSelectionMessage(P0, event) ==
  Then(P0, LAMBDA P :
  Then(DesignerCheckState(P, event), LAMBDA P1 :
    IF ~isTrustedDesignerMessage(P, event) THEN P1
    ELSE IF event.type # SELECTION_MESSAGE_TYPE THEN P1
    ELSE applySelectionState(P1, OrElse(event.selection, OrElse(event.element, Null)))))

\* showDevMockSelection: handleSelectionMessage on a plain object, which
\* skips the trust check
showDevMockSelection(P, reason) ==
  IF ~DEV_ENVIRONMENT THEN P
  ELSE applySelectionState(P, OrElse(createDevSelectionState(reason), Null))

\* target origins that keep the known origins after the confirmation
TargetOrigins_KeepsKnown(P) ==
  (IF P.trustedDesignerOrigin # NoOrigin THEN <<P.trustedDesignerOrigin>> ELSE <<>>)
    \o SelectSeq(KNOWN_WEBFLOW_ORIGINS, LAMBDA origin : origin # P.trustedDesignerOrigin)

\* Set insertion order of targetOrigins
TargetOrigins(P) ==
  LET first == IF P.trustedDesignerOrigin # NoOrigin THEN <<P.trustedDesignerOrigin>> ELSE <<>>
      known == IF P.designerOriginConfirmed THEN <<>> ELSE KNOWN_WEBFLOW_ORIGINS
  IN first \o SelectSeq(known, LAMBDA origin : origin # P.trustedDesignerOrigin)

\* broadcastToHost: the postMessage calls it makes
broadcastToHost(P, type) ==
  IF P.designerMessageWindow = NoWindow THEN <<>>
  ELSE Then(TargetOrigins(P), LAMBDA targetOrigins :
         [i \in 1..Len(targetOrigins) |->
            [type |-> type, target |-> targetOrigins[i], to |-> P.designerMessageWindow]])

\* Math.round(desktopMeasured * 0.6), in tenths
RoundSixTenths(value) == Num(((value.v * 6 + 50) \div 100) * 10)

\* Math.max of two numbers
MathMax(a, b) == IF a.v >= b.v THEN a ELSE b

buildMockRecommendations(measuredWidths) ==
  LET desktopMeasured == Coalesce(toFiniteNumber(Get(measuredWidths, "desktop")), Px(640))
      mobileMeasured == Coalesce(toFiniteNumber(Get(measuredWidths, "mobile")),
                                 RoundSixTenths(desktopMeasured))
      universal == Num(MathRound(MathMax(desktopMeasured, mobileMeasured).v * 2))
  IN Obj([universalUploadSize |-> universal,
          desktopRenderSize |-> desktopMeasured,
          mobileRenderSize |-> mobileMeasured])

\* module evaluation up to the end of initPanel
LoadedPanel(framed, referrer, hidden) ==
  Then([designerMessageWindow |-> IF framed THEN "w1" ELSE NoWindow,
        trustedDesignerOrigin |-> IF referrer # NoOrigin /\ isAllowedHostOrigin(referrer)
                                  THEN referrer ELSE NoOrigin,
        designerOriginConfirmed |-> FALSE,
        currentSelectionState |-> Null,
        currentSelected |-> Null,
        devMockSelectionActive |-> FALSE,
        analyzeProcessing |-> FALSE,
        analyzeSelectionReady |-> FALSE,
        ui |-> [status |-> "Waiting for a Designer selection...",
                label |-> [text |-> "", firstOf |-> 0],
                resultsHidden |-> hidden, results |-> Null,
                analyzeDisabled |-> FALSE, devBadgeHidden |-> TRUE]], LAMBDA P0 :
  Then(setAnalyzeProcessing(P0, FALSE), LAMBDA P1 :
  Then(setAnalyzeReady(P1, FALSE), LAMBDA P2 :
  Then(updateDevBadge(P2), LAMBDA P3 :
    showDevMockSelection(P3, Str("dev-init"))))))

\* what the panel posts while it loads: ensureResize, then initPanel
LoadedPanelPosts(P) ==
  broadcastToHost(P, PANEL_RESIZE_MESSAGE_TYPE) \o broadcastToHost(P, SUBSCRIBE_MESSAGE_TYPE)
    \o broadcastToHost(P, CONTEXT_READY_MESSAGE_TYPE)

\* selection messages a host can send: message.selection and message.element
EmptyState == Obj([elements |-> Arr(<<>>), primary |-> Null, devMock |-> JBool(FALSE)])

ReadyState(elements) ==
  Obj([elements |-> Arr(elements), primary |-> Head(elements), devMock |-> JBool(FALSE)])

SelectionPayloads ==
  {[selection |-> Undef, element |-> Undef],
   [selection |-> EmptyState, element |-> Null],
   [selection |-> ReadyState(<<E_WIDTHS>>), element |-> E_WIDTHS],
   [selection |-> ReadyState(<<E_COMPUTED, E_WIDTHS>>), element |-> E_COMPUTED],
   [selection |-> Undef, element |-> E_UNMEASURED]}

DesignerEvents ==
  {[origin |-> o, dataOrigin |-> d, source |-> w, type |-> ty,
    selection |-> p.selection, element |-> p.element] :
     o \in HostOrigins \cup {NoOrigin}, d \in {NoOrigin, H_APP},
     w \in Windows \cup {NoWindow}, ty \in {SELECTION_MESSAGE_TYPE, "riaa:unknown"},
     p \in SelectionPayloads}

\* What the last delivered message was, relative to the state it met.
DesignerStep(event) ==
  Then(DesignerCheckState(PanelState, event), LAMBDA checked :
  Then(isTrustedDesignerMessage(PanelState, event), LAMBDA trusted :
  [kind |-> "message",
   trusted |-> trusted,
   allowed |-> isAllowedHostOrigin(EventOrigin(event)),
   pinsOrigin |-> /\ checked.designerOriginConfirmed
                  /\ checked.trustedDesignerOrigin = EventOrigin(event),
   originDiffers |-> designerOriginConfirmed /\ EventOrigin(event) # trustedDesignerOrigin,
   senderDiffers |-> /\ designerMessageWindow # NoWindow
                     /\ event.source # NoWindow
                     /\ event.source # designerMessageWindow,
   selection |-> event.type = SELECTION_MESSAGE_TYPE,
   \* the argument of applySelectionState, when the handler got that far
   applied |-> IF trusted /\ event.type = SELECTION_MESSAGE_TYPE
               THEN OrElse(event.selection, OrElse(event.element, Null))
               ELSE Undef]))

\* the panel script has run to its end, ensureResize apart
PanelLoads ==
  /\ DEV_ENVIRONMENT \in BOOLEAN
  /\ BridgeIdle
  /\ RetryIdle
  /\ referrerOrigin \in {NoOrigin, H_APP, H_EVIL}
  /\ \E framed \in BOOLEAN, hidden \in BOOLEAN :
        \E P \in {LoadedPanel(framed, referrerOrigin, hidden)} :
          /\ PanelIs(P)
          /\ panelPosted = LoadedPanelPosts(P)
  /\ panelRequest = Null
  /\ step = [kind |-> "load"]

InitPanel ==
  /\ PanelLoads
  /\ resizeLoop = NoResizeLoop

\* a 'message' event reaches the panel window: handleSelectionMessage(event)
DeliverDesignerMessage ==
  \E event \in DesignerEvents :
    /\ event.dataOrigin # NoOrigin => (event.origin = NoOrigin /\ event.source = NoWindow)
    /\ event.type # SELECTION_MESSAGE_TYPE => event.selection = EmptyState
    \* windows are interchangeable: "w2" sends only once a designer window is known
    /\ event.source = "w2" => designerMessageWindow # NoWindow
    \* an untrusted message is turned away before its data is read: one
    \* selection message stands for all of them
    /\ ~isTrustedDesignerMessage(PanelState, event) =>
         (event.type = SELECTION_MESSAGE_TYPE /\ event.element = E_WIDTHS)
    /\ PanelBecomes(handleSelectionMessage(PanelState, event))
    /\ panelPosted' = <<>>
    /\ step' = DesignerStep(event)
    /\ UNCHANGED <<referrerOrigin, panelRequest, resizeLoop>>
    /\ UNCHANGED <<DEV_ENVIRONMENT, bridgeVars, retryVars>>

\* click on the Analyze button: handleAnalyzeClick up to its await
PanelAnalyzeClick ==
  /\ ~panelUi.analyzeDisabled
  /\ \E measuredWidths \in {deriveMeasuredWidths(currentSelected)},
        checking \in {setAnalyzeProcessing(PanelState, TRUE)} :
        CASE ~Truthy(currentSelected) ->
               /\ PanelBecomes([PanelState EXCEPT !.ui.resultsHidden = TRUE,
                                  !.ui.status = "Select an image in the Designer first."])
               /\ panelRequest' = Null
          [] ~Truthy(measuredWidths) ->
               /\ PanelBecomes(setAnalyzeProcessing(
                    [checking EXCEPT !.ui.resultsHidden = TRUE,
                       !.ui.status = "Unable to determine rendered widths for the selected element."],
                    FALSE))
               /\ panelRequest' = Null
          [] OTHER ->
               /\ PanelBecomes([checking EXCEPT !.ui.status = "Sending widths to AI backend..."])
               /\ panelRequest' = measuredWidths
  /\ panelPosted' = <<>>
  /\ step' = [kind |-> "analyzeClick"]
  /\ UNCHANGED <<referrerOrigin, resizeLoop>>
  /\ UNCHANGED <<DEV_ENVIRONMENT, bridgeVars, retryVars>>

\* handleAnalyzeClick after a response body arrived
AnalysisRendered(P, recommendations, measuredWidths) ==
  setAnalyzeProcessing([P EXCEPT !.ui.results = renderResults(recommendations, measuredWidths),
                                 !.ui.resultsHidden = FALSE,
                                 !.ui.status = "Analysis complete."], FALSE)

\* a catch block that is not followed by the finally block
AnalysisFailed_StaysProcessing(P, message) ==
  [P EXCEPT !.ui.resultsHidden = TRUE, !.ui.status = message]

\* handleAnalyzeClick after requestRecommendations threw
AnalysisFailed(P, message) ==
  setAnalyzeProcessing([P EXCEPT !.ui.resultsHidden = TRUE, !.ui.status = message], FALSE)

\* the recommendation request settles: a 2xx body, a body that is not JSON,
\* or a network failure / non-2xx status
PanelAnalysisSettles ==
  /\ panelRequest # Null
  /\ \/ \E recommendations \in Recommendations :
          /\ PanelBecomes(AnalysisRendered(PanelState, recommendations, panelRequest))
          /\ step' = [kind |-> "analysisSettles", outcome |-> "ok",
                       universalGiven |->
                         ~IsNullish(Get(recommendations, "universalUploadSize"))]
     \/ /\ PanelBecomes(AnalysisFailed(PanelState, "Unable to analyze the selected element."))
        /\ step' = [kind |-> "analysisSettles", outcome |-> "badBody"]
     \/ /\ PanelBecomes(IF DEV_ENVIRONMENT
                        THEN AnalysisRendered(PanelState, buildMockRecommendations(panelRequest),
                                              panelRequest)
                        ELSE AnalysisFailed(PanelState, "The AI backend returned an error."))
        /\ step' = [kind |-> "analysisSettles", outcome |-> "failed"]
  /\ panelRequest' = Null
  /\ panelPosted' = <<>>
  /\ UNCHANGED <<referrerOrigin, resizeLoop>>
  /\ UNCHANGED <<DEV_ENVIRONMENT, bridgeVars, retryVars>>

NextPanel ==
  \/ DeliverDesignerMessage
  \/ PanelAnalyzeClick
  \/ PanelAnalysisSettles

panelAll == <<DEV_ENVIRONMENT, step, bridgeVars, retryVars, panelVars>>

SpecPanel == InitPanel /\ [][NextPanel]_panelAll

DesignerMessageDelivered == step'.kind = "message"

\* the handler returned without touching what the panel shows
PanelUntouched ==
  /\ UNCHANGED <<currentSelectionState, currentSelected>>
  /\ panelUi'.label = panelUi.label
  /\ panelUi'.status = panelUi.status
  /\ panelUi'.resultsHidden = panelUi.resultsHidden

\* C4: the first message from an allowed host origin pins trustedDesignerOrigin,
\* which then never changes; every later message from a different origin, or
\* from a window other than the designer window, is dropped:
\* currentSelectionState, currentSelected, the label, the status text and the
\* visibility of the results are unchanged.
C4_PanelDropsUntrustedMessages ==
  [][/\ designerOriginConfirmed =>
          (designerOriginConfirmed' /\ trustedDesignerOrigin' = trustedDesignerOrigin)
     /\ (DesignerMessageDelivered /\ ~designerOriginConfirmed /\ step'.allowed) =>
          (designerOriginConfirmed' /\ step'.pinsOrigin)
     /\ (DesignerMessageDelivered /\ (step'.originDiffers \/ step'.senderDiffers)) =>
          (~step'.trusted /\ PanelUntouched)
    ]_panelAll

\* a selection is shown, and a selection message from another allowed origin
\* has just been dropped
C4_Witness ==
  /\ ~DEV_ENVIRONMENT
  /\ step.kind = "message"
  /\ step.originDiffers
  /\ step.allowed
  /\ step.selection
  /\ ~step.senderDiffers
  /\ Truthy(currentSelected)

(***************************************************************************)
(* The origin-checking panel and its Designer alone: every message comes   *)
(* from the Designer at https://app.webflow.com and selects an element     *)
(* with one of the width shapes a host can report.                         *)
(***************************************************************************)
HostWidthShapes ==
  {Undef,
   Obj([desktop |-> Px(640), mobile |-> Px(320)]),
   Obj([desktop |-> Null, mobile |-> Px(320)]),
   Obj([desktop |-> Num(-50), mobile |-> NaN])}

ComputedWidthShapes ==
  {Obj([desktop |-> Null, mobile |-> Null]),
   Obj([desktop |-> Px(320), mobile |-> Px(800)]),
   Obj([desktop |-> Px(641), mobile |-> Null])}

MeasuredElements ==
  {Obj([id |-> Str("a"), tagName |-> Str("img"), selector |-> Null,
        widths |-> widths, computedWidths |-> computed,
        computedWidthDesktop |-> Get(computed, "desktop"),
        computedWidthMobile |-> Get(computed, "mobile")]) :
     widths \in HostWidthShapes, computed \in ComputedWidthShapes}

InitWidths ==
  /\ InitPanel
  /\ referrerOrigin = H_APP

\* a selection message of the Designer reaches the panel window
DeliverMeasuredSelection ==
  \E element \in MeasuredElements \cup {Null} :
    \E event \in {[origin |-> H_APP, dataOrigin |-> NoOrigin, source |-> "w1",
                    type |-> SELECTION_MESSAGE_TYPE, selection |-> Undef, element |-> element]} :
      /\ PanelBecomes(handleSelectionMessage(PanelState, event))
      /\ panelPosted' = <<>>
      /\ step' = DesignerStep(event)
      /\ UNCHANGED <<referrerOrigin, panelRequest, resizeLoop>>
      /\ UNCHANGED <<DEV_ENVIRONMENT, bridgeVars, retryVars>>

NextWidths ==
  \/ DeliverMeasuredSelection
  \/ PanelAnalyzeClick
  \/ PanelAnalysisSettles

SpecWidths == InitWidths /\ [][NextWidths]_panelAll

\* C12 (as claimed): the Analyze button is enabled only when an element is
\* selected, a measured width can be derived from it, and no analysis is in
\* progress.
C12_AnalyzeOnlyWhenReady ==
  ~panelUi.analyzeDisabled =>
    /\ Truthy(currentSelected)
    /\ Truthy(deriveMeasuredWidths(currentSelected))
    /\ ~analyzeProcessing

\* the positive finite numbers among the widths a descriptor carries
PositiveWidths(selection) ==
  {toFiniteNumber(Get(Get(selection, "widths"), "desktop")),
   toFiniteNumber(Get(Get(selection, "widths"), "mobile")),
   toFiniteNumber(Get(selection, "computedWidthDesktop")),
   toFiniteNumber(Get(selection, "computedWidthMobile")),
   toFiniteNumber(Get(Get(selection, "computedWidths"), "desktop")),
   toFiniteNumber(Get(Get(selection, "computedWidths"), "mobile"))} \ {Null}

BlockingStatuses ==
  {"Select an image in the Designer first.",
   "Unable to determine rendered widths for the selected element."}

\* C13 (as claimed): a click on Analyze while nothing is selected, or while the
\* selected descriptor carries no positive finite width, sends no request,
\* shows a blocking status and hides the results.
C13_NoWidthNoRequest ==
  [][(/\ step'.kind = "analyzeClick"
      /\ (~Truthy(currentSelected) \/ PositiveWidths(currentSelected) = {}))
       => /\ panelRequest' = Null
          /\ panelUi'.resultsHidden
          /\ panelUi'.status \in BlockingStatuses]_panelAll

ErrorStatuses ==
  {"The AI backend returned an error.", "Unable to analyze the selected element."}

\* C14 (as claimed): in every environment, when the recommendation request
\* fails (network failure or non-2xx status) an error status is shown, the
\* results are hidden and no request is left in flight.
C14_FailureEndsInError ==
  [][(step'.kind = "analysisSettles" /\ step'.outcome = "failed")
       => /\ panelUi'.status \in ErrorStatuses
          /\ panelUi'.resultsHidden
          /\ panelRequest' = Null]_panelAll

\* C15 (as claimed): a trusted selection message that carries the selection
\* the panel already holds changes neither the retained selection, nor the
\* label, the status text, the visibility of the results or the enablement
\* of the Analyze button, whatever the panel was showing.
C15_RedeliveryIsIdempotent ==
  [][(/\ DesignerMessageDelivered
      /\ step'.trusted
      /\ step'.selection
      /\ currentSelectionState # Null
      /\ currentSelectionState' = currentSelectionState)
       => /\ currentSelected' = currentSelected
          /\ panelUi'.label = panelUi.label
          /\ panelUi'.status = panelUi.status
          /\ panelUi'.resultsHidden = panelUi.resultsHidden
          /\ panelUi'.analyzeDisabled = panelUi.analyzeDisabled]_panelAll

\* twice the larger of the two measured widths, as the panel prints it
TwiceTheLarger(measuredWidths) ==
  LET desktop == Get(measuredWidths, "desktop")
      mobile == Get(measuredWidths, "mobile")
  IN formatPixelValue(Num(2 * (IF desktop.v >= mobile.v THEN desktop.v ELSE mobile.v)))

\* C16 (as claimed): when the response carries no universalUploadSize, the
\* universal size rendered is twice the larger of the measured desktop and
\* mobile widths.
C16_UniversalIsTwiceTheLarger ==
  [][(/\ step'.kind = "analysisSettles"
      /\ step'.outcome = "ok"
      /\ ~step'.universalGiven
      /\ Get(panelRequest, "desktop").t = "num"
      /\ Get(panelRequest, "mobile").t = "num")
       => panelUi'.results.universal = TwiceTheLarger(panelRequest)]_panelAll

\* a positive finite number, as toFiniteNumber returns one
IsPositiveFinite(value) == value.t = "num" /\ value.v > 0

\* C17 (as claimed): deriveMeasuredWidths of the selected element is null
\* exactly when no desktop or mobile width of either source is a positive
\* finite number, and any other result has a positive finite desktop and a
\* positive finite mobile width.
C17_DerivedWidthsArePositive ==
  Truthy(currentSelected) =>
    \E measuredWidths \in {deriveMeasuredWidths(currentSelected)} :
      /\ (measuredWidths = Null) <=> (PositiveWidths(currentSelected) = {})
      /\ measuredWidths # Null =>
            /\ IsPositiveFinite(Get(measuredWidths, "desktop"))
            /\ IsPositiveFinite(Get(measuredWidths, "mobile"))

(***************************************************************************)
(* The selection normaliser of the Host Bridge on its own                  *)
(* (src/unnamed/part_002 lines 492-557): a payload the host hands over is  *)
(* split into candidates and normalised into a selection state.            *)
(***************************************************************************)
SelectionFields == <<"selectedElements", "elements", "selection", "selectedElement", "element">>

\* a raw element that tells which field of the payload it came from
RawElementOf(field) == Obj([id |-> Str(field)])

\* what a host may put in a field of the payload it hands over
FieldValues(field) ==
  IF field \in {"selectedElements", "elements", "selection"}
  THEN {Undef, Arr(<<Null, RawElementOf(field)>>), RawElementOf(field)}
  ELSE {Undef, RawElementOf(field)}

ObjectPayloads ==
  {Obj([field \in {"devMock"} \cup {SelectionFields[i] : i \in 1..Len(SelectionFields)} |->
          IF field = "devMock" THEN flag ELSE values[field]]) :
     flag \in {Undef, JBool(TRUE)},
     values \in [{SelectionFields[i] : i \in 1..Len(SelectionFields)} ->
                   UNION {FieldValues(SelectionFields[i]) : i \in 1..Len(SelectionFields)}]}

NormaliserPayloads ==
  {P_NONE, Undef, Arr(<<>>), Arr(<<Null>>), Arr(<<Null, ElPic>>), Arr(<<ElPic, Null, ElHero>>)}
    \cup {payload \in ObjectPayloads :
            \A i \in 1..Len(SelectionFields) :
              Get(payload, SelectionFields[i]) \in FieldValues(SelectionFields[i])}

InitNormaliser ==
  /\ DEV_ENVIRONMENT = FALSE
  /\ scriptOrigin = NoOrigin
  /\ hostRuntime = NoRuntime
  /\ hostSelection \in NormaliserPayloads
  /\ layout = "wide"
  /\ runtimePromise = "null"
  /\ initPhase = "settled"
  /\ BridgeIs(LoadedBridge(NoOrigin, TRUE))
  /\ contacted = FALSE
  /\ budget = [messages |-> 0, hostChanges |-> 0, notifications |-> 0]
  /\ RetryIdle
  /\ PanelIdle
  /\ step = [kind |-> "load"]

\* extractSelectionArray(payload)
ExtractCandidates ==
  /\ step' = [kind |-> "extract", candidates |-> extractSelectionArray(hostSelection)]
  /\ UNCHANGED <<DEV_ENVIRONMENT, bridgeVars, retryVars, panelVars>>

\* latestSelectionState = normalizeSelectionState(payload)
NormalizePayload ==
  /\ latestSelectionState' = normalizeSelectionState(hostSelection, layout, getCurrentDevice)
  /\ step' = [kind |-> "normalize"]
  /\ UNCHANGED <<DEV_ENVIRONMENT, scriptOrigin, trustedPanelOrigin, panelOriginConfirmed,
                 trustedPanelWindow, subscribers, subscriberOrigins, selectionPollTimer,
                 lastPolledSignature, devMockActive, designerScriptSupported, hostRuntime,
                 runtimePromise, initPhase, listeners, hostSelection, layout, pending, posted,
                 hostPanelSize, contacted, budget, retryVars, panelVars>>

NextNormaliser ==
  \/ ExtractCandidates
  \/ NormalizePayload

normaliserAll == <<DEV_ENVIRONMENT, step, bridgeVars, retryVars, panelVars>>

SpecNormaliser == InitNormaliser /\ [][NextNormaliser]_normaliserAll

\* the candidates of a payload that resolve to a descriptor
ResolvingCandidates(payload) ==
  LET candidates == extractSelectionArray(payload)
  IN {i \in 1..Len(candidates) :
        Truthy(normalizeSelection(candidates[i], layout, getCurrentDevice))}

\* C18 (as claimed): the state normalizeSelectionState produces has as many
\* elements as the payload has candidates that resolve to a descriptor, and
\* is the empty state, with no primary, when no candidate resolves.
C18_ElementsAreTheResolvingCandidates ==
  step.kind = "normalize" =>
    \E resolving \in {ResolvingCandidates(hostSelection)} :
      /\ JsLength(Get(latestSelectionState, "elements")) = Cardinality(resolving)
      /\ resolving = {} => latestSelectionState = createEmptySelectionState

\* the fields of the priority order that a payload carries
PresentFields(payload) ==
  {i \in 1..Len(SelectionFields) : ~IsNullish(Get(payload, SelectionFields[i]))}

\* the candidates the priority order names for a payload
CandidatesByPriority(payload) ==
  CASE IsNullish(payload) -> <<>>
    [] IsArray(payload) -> payload.v
    [] PresentFields(payload) # {} ->
         LET first == CHOOSE i \in PresentFields(payload) : \A j \in PresentFields(payload) : i <= j
             value == Get(payload, SelectionFields[first])
         IN IF IsArray(value) THEN value.v ELSE <<value>>
    [] OTHER -> <<payload>>

\* C19 (as claimed): extractSelectionArray returns an array payload itself,
\* else the value of the first field the payload carries in the order
\* selectedElements, elements, selection, selectedElement, element, else the
\* payload as the only candidate, and no candidate for an absent payload.
C19_FirstPresentFieldWins ==
  step.kind = "extract" => step.candidates = CandidatesByPriority(hostSelection)

\* the fields of a sanitized descriptor
DescriptorFields ==
  {"id", "elementId", "label", "selector", "tagName", "widths", "computedWidths",
   "computedWidthDesktop", "computedWidthMobile", "devMock", "reason"}

IsSanitizedDescriptor(element) ==
  \/ IsNullish(element)
  \/ /\ element.t = "obj"
     /\ DOMAIN element.v \subseteq DescriptorFields
     /\ \A field \in DOMAIN element.v : element.v[field].t # "node"

\* C20 (as claimed): every element of every state the bridge posts to a panel
\* is a sanitized descriptor: it has only the whitelisted fields and holds no
\* DOM node.
C20_BroadcastsCarryOnlyDescriptors ==
  \A i \in 1..Len(posted) :
    \A element \in DescriptorsOf(posted[i].data) : IsSanitizedDescriptor(element)

(***************************************************************************)
(* The Host Bridge with its timers and host calls running to their end:    *)
(* the discovery interval and timeout fire, and an awaited getter call     *)
(* returns or throws.                                                      *)
(***************************************************************************)
\* panel messages delivered to the Host Bridge in one fair run
MaxLiveMessages == 1

InitBridgeLive ==
  /\ DEV_ENVIRONMENT \in BOOLEAN
  /\ scriptOrigin \in {NoOrigin, O_SCRIPT}
  /\ hostRuntime \in RuntimeShapes \cup {NoRuntime}
  /\ hostSelection = P_NONE
  /\ layout = "wide"
  /\ runtimePromise = IF hostRuntime.present THEN "runtime" ELSE "pending"
  /\ initPhase = IF ~hostRuntime.present THEN "loaded"
                 ELSE IF hostRuntime.ready THEN "settled" ELSE "ready"
  /\ BridgeIs(IF hostRuntime.present
              THEN SettleRuntime(LoadedBridge(scriptOrigin, hostRuntime.require), "runtime")
              ELSE LoadedBridge(scriptOrigin, FALSE))
  /\ contacted = FALSE
  /\ budget = [messages |-> MaxLiveMessages, hostChanges |-> MaxHostChanges,
               notifications |-> MaxNotifications]
  /\ RetryIdle
  /\ PanelIdle
  /\ step = [kind |-> "load"]

liveAll == <<DEV_ENVIRONMENT, step, bridgeVars, retryVars, panelVars>>

SpecBridgeLive ==
  /\ InitBridgeLive
  /\ [][NextBridge]_liveAll
  /\ WF_liveAll(DiscoveryTick \/ DiscoveryTimeout)
  /\ WF_liveAll(HostCallSettles)

\* a context-ready fetch is still awaited
CtxPending == \E i \in 1..Len(pending) : pending[i].kind = "ctx"

\* the last handler posted the retained state to window w
BroadcastReached(w) ==
  \E i \in 1..Len(posted) :
    posted[i].to = w /\ Get(posted[i].data, "selection") = latestSelectionState

CtxAccepted ==
  /\ step.kind = "message"
  /\ step.trusted
  /\ step.type = CONTEXT_READY_EVENT
  /\ step.hasSender

CtxAnswered ==
  /\ ~CtxPending
  /\ \E i \in 1..Len(subscribers) : subscribers[i] = trustedPanelWindow
  /\ \A i \in 1..Len(subscribers) : BroadcastReached(subscribers[i])

NormalizedBy(task) ==
  normalizeSelectionState(IF task.kind = "poll" THEN OrElse(task.raw, Arr(<<>>))
                          ELSE GetterArgument(task.raw),
                          layout, getCurrentDevice)

\* C22 (as claimed): after every normalization pass of the bridge - a
\* selection event, a poll read, or the fetch made for a panel request - the
\* retained latestSelectionState is the state that pass produced, and so is
\* the state sent last.
C22_RetainedIsTheLatestPass ==
  [][/\ step'.kind = "selectionEvent" =>
          latestSelectionState' = normalizeSelectionState(hostSelection, layout, getCurrentDevice)
     /\ (step'.kind = "hostCallSettles" /\ step'.outcome = "ok") =>
          /\ \E i \in 1..Len(pending) :
                /\ pending[i].stage = "getter"
                /\ pending[i].kind = step'.task
                /\ latestSelectionState' = NormalizedBy(pending[i])
          /\ posted' # <<>> =>
                Get(posted'[Len(posted')].data, "selection") = latestSelectionState'
    ]_bridgeAll

\* C23 (as claimed): a subscribe, request or context-ready message that a
\* panel window sends from the trusted origin registers that window as a
\* subscriber, also when another panel window is registered already.
C23_EveryPanelWindowRegisters ==
  [][(/\ MessageDelivered
      /\ step'.acceptable
      /\ ~step'.originDiffers
      /\ step'.hasSender
      /\ step'.type \in {SUBSCRIBE_MESSAGE, REQUEST_MESSAGE, CONTEXT_READY_EVENT})
       => /\ step'.trusted
          /\ \E i \in 1..Len(subscribers') : subscribers'[i] = step'.source]_bridgeAll

\* the last handler answered a trusted panel message: at once, or when the
\* getter call made for it settled
PanelAnswered ==
  /\ posted # <<>>
  /\ \/ step.kind = "message" /\ step.trusted
     \/ step.kind = "hostCallSettles" /\ step.task \in {"req", "ctx"}

\* C24 (as claimed): once the bridge has answered a trusted panel message,
\* the poll timer is cleared.
C24_PollingStopsOnceAnswered == PanelAnswered => ~selectionPollTimer


\* ---------------------------------------------------------------------
\* The panel's resize-retry loop: ensureResize and the runtime promise it
\* waits on (src/public/panel.js lines 17-19 and 35-120)
\* ---------------------------------------------------------------------

RUNTIME_MAX_ATTEMPTS == 40

\* what window.webflow can be: absent, or an object with setExtensionSize,
\* with resize only, or with neither method
NoPanelRuntime == "none"
PanelRuntimeShapes == {"setExtensionSize", "resize", "bare"}

\* requestPanelSize(api, size): true when the api has one of the two
\* methods and the call does not throw
requestPanelSize(api, throws) ==
  /\ api \in {"setExtensionSize", "resize"}
  /\ ~throws

\* both intervals run at RUNTIME_RETRY_DELAY, so each fires once per
\* period: fired holds the timers that already ran in the current period
LiveTimers(L) ==
  (IF L.timer THEN {"resize"} ELSE {}) \cup (IF L.apiTimer THEN {"api"} ELSE {})

EndPeriod(L) == IF LiveTimers(L) \subseteq L.fired THEN [L EXCEPT !.fired = {}] ELSE L

\* the .then callback of one ensureResize tick
resizeThen(L, accepted) ==
  IF accepted \/ L.attempts >= RUNTIME_MAX_ATTEMPTS THEN [L EXCEPT !.timer = FALSE] ELSE L

\* the .catch callback of one ensureResize tick
resizeCatch_KeepsTimer(L) == L

resizeCatch(L) ==
  IF L.attempts >= RUNTIME_MAX_ATTEMPTS THEN [L EXCEPT !.timer = FALSE] ELSE L

\* the callbacks that ensureResize ticks left on the pending promise run
\* when it settles; anyAccepted says whether one of their resize requests
\* was accepted
SettleWaiting(L, anyAccepted) ==
  IF L.waiting = 0 THEN L
  ELSE Then([L EXCEPT !.waiting = 0], LAMBDA L1 :
       IF L.runtimePromise = "resolved" THEN resizeThen(L1, anyAccepted) ELSE resizeCatch(L1))

\* getRuntimeApi() on first call, then ensureResize up to its setInterval
ensureResize(runtime) ==
  [timer |-> TRUE, attempts |-> 0, runtime |-> runtime,
   runtimePromise |-> IF runtime # NoPanelRuntime THEN "resolved" ELSE "pending",
   api |-> runtime,
   apiTimer |-> runtime = NoPanelRuntime, apiAttempts |-> 0,
   waiting |-> 0, fired |-> {}]

InitResize ==
  /\ PanelLoads
  /\ \E runtime \in PanelRuntimeShapes \cup {NoPanelRuntime} : resizeLoop = ensureResize(runtime)

ResizeUnchanged ==
  UNCHANGED <<DEV_ENVIRONMENT, bridgeVars, retryVars, designerMessageWindow, referrerOrigin,
              trustedDesignerOrigin, designerOriginConfirmed, currentSelectionState,
              currentSelected, devMockSelectionActive, analyzeProcessing,
              analyzeSelectionReady, panelUi, panelRequest, panelPosted>>

\* the host page defines window.webflow after the panel loaded
RuntimeInjected ==
  /\ resizeLoop.timer
  /\ resizeLoop.runtime = NoPanelRuntime
  /\ \E runtime \in PanelRuntimeShapes :
       resizeLoop' = [resizeLoop EXCEPT !.runtime = runtime]
  /\ step' = [kind |-> "runtimeInjected", accepted |-> FALSE]
  /\ ResizeUnchanged

\* one tick of getRuntimeApi's interval; timedOut says whether more than
\* RUNTIME_TIMEOUT_MS passed since it was set
RuntimeTick ==
  /\ resizeLoop.apiTimer
  /\ "api" \notin resizeLoop.fired
  /\ \E timedOut \in BOOLEAN, throws \in BOOLEAN :
       \E L \in {[resizeLoop EXCEPT !.fired = @ \cup {"api"}]} :
         IF L.runtime # NoPanelRuntime
         THEN /\ resizeLoop' =
                   EndPeriod(SettleWaiting([L EXCEPT !.apiTimer = FALSE,
                                                     !.runtimePromise = "resolved",
                                                     !.api = L.runtime],
                                           requestPanelSize(L.runtime, throws)))
              /\ step' = [kind |-> "runtimeTick", settled |-> "resolved",
                          accepted |-> L.waiting > 0 /\ requestPanelSize(L.runtime, throws)]
         ELSE IF L.apiAttempts + 1 >= RUNTIME_MAX_ATTEMPTS \/ timedOut
         THEN /\ resizeLoop' =
                   EndPeriod(SettleWaiting([L EXCEPT !.apiAttempts = @ + 1,
                                                     !.apiTimer = FALSE,
                                                     !.runtimePromise = "rejected"], FALSE))
              /\ step' = [kind |-> "runtimeTick", settled |-> "rejected", accepted |-> FALSE]
         ELSE /\ ~throws
              /\ resizeLoop' = EndPeriod([L EXCEPT !.apiAttempts = @ + 1])
              /\ step' = [kind |-> "runtimeTick", settled |-> "pending", accepted |-> FALSE]
  /\ ResizeUnchanged

\* one tick of ensureResize's interval, with the promise callback it
\* attaches when the promise is already settled
ResizeTick ==
  /\ resizeLoop.timer
  /\ "resize" \notin resizeLoop.fired
  /\ \E throws \in BOOLEAN :
       \E L \in {[resizeLoop EXCEPT !.fired = @ \cup {"resize"}, !.attempts = @ + 1]} :
         CASE L.runtimePromise = "pending" ->
                /\ ~throws
                /\ resizeLoop' = EndPeriod([L EXCEPT !.waiting = @ + 1])
                /\ step' = [kind |-> "resizeTick", accepted |-> FALSE]
           [] L.runtimePromise = "resolved" ->
                /\ resizeLoop' = EndPeriod(resizeThen(L, requestPanelSize(L.api, throws)))
                /\ step' = [kind |-> "resizeTick",
                            accepted |-> requestPanelSize(L.api, throws)]
           [] OTHER ->
                /\ ~throws
                /\ resizeLoop' = EndPeriod(resizeCatch(L))
                /\ step' = [kind |-> "resizeTick", accepted |-> FALSE]
  /\ ResizeUnchanged

NextResize ==
  \/ RuntimeInjected
  \/ RuntimeTick
  \/ ResizeTick

SpecResize == InitResize /\ [][NextResize]_panelAll

\* an interval that is set keeps firing
SpecResizeLive ==
  /\ SpecResize
  /\ WF_panelAll(RuntimeTick)
  /\ WF_panelAll(ResizeTick)

\* C25 the resize-retry timer is cleared by a tick whose resize request
\* is accepted, is never live past the cap of RUNTIME_MAX_ATTEMPTS ticks
\* once the runtime promise has settled, is cleared for no other reason,
\* and in every run it is cleared in the end and stays cleared
C25_ResizeLoopTerminates ==
  /\ <>[](~resizeLoop.timer)
  /\ [](resizeLoop.timer =>
          \/ resizeLoop.attempts < RUNTIME_MAX_ATTEMPTS
          \/ resizeLoop.attempts = RUNTIME_MAX_ATTEMPTS /\ resizeLoop.runtimePromise = "pending")
  /\ [][/\ step'.accepted => ~resizeLoop'.timer
        /\ (resizeLoop.timer /\ ~resizeLoop'.timer)
             => step'.accepted \/ resizeLoop'.attempts >= RUNTIME_MAX_ATTEMPTS
        /\ ~resizeLoop.timer => ~resizeLoop'.timer]_panelAll

\* the runtime was never found and the loop stopped at the cap
C25_Witness ==
  /\ step.kind = "resizeTick"
  /\ ~resizeLoop.timer
  /\ resizeLoop.attempts = RUNTIME_MAX_ATTEMPTS
  /\ resizeLoop.runtimePromise = "rejected"
  /\ resizeLoop.runtime = NoPanelRuntime


\* C26 a getter that throws is absence for that one call: after a
\* throwing poll the retained state, the polled signature, the subscribers
\* and the poll timer are as before and nothing is posted; after a
\* throwing fetch outside development every message posted carries the
\* empty state, an initial or context-ready fetch retains the empty state,
\* and the poll timer and the listeners stay as they were
GetterThrew == step'.kind = "hostCallSettles" /\ step'.outcome = "throws"

C26_ThrowingGetterIsAbsence ==
  [][/\ (GetterThrew /\ step'.task = "poll")
          => /\ latestSelectionState' = latestSelectionState
             /\ lastPolledSignature' = lastPolledSignature
             /\ subscribers' = subscribers
             /\ selectionPollTimer'
             /\ posted' = <<>>
     /\ (GetterThrew /\ step'.task # "poll" /\ ~DEV_ENVIRONMENT)
          => /\ \A i \in 1..Len(posted') :
                  Get(posted'[i].data, "selection") = createEmptySelectionState
             /\ step'.task \in {"init", "ctx"}
                  => latestSelectionState' = createEmptySelectionState
             /\ selectionPollTimer' = selectionPollTimer
             /\ listeners' = listeners
             /\ ~devMockActive']_bridgeAll

\* a poll threw while a selection was retained
C26_Witness ==
  /\ step.kind = "hostCallSettles"
  /\ step.outcome = "throws"
  /\ step.task = "poll"
  /\ HasSelection(latestSelectionState)
  /\ Len(subscribers) > 0
  /\ selectionPollTimer

\* a fetch threw outside development and the empty state went out
C26_WitnessFetch ==
  /\ step.kind = "hostCallSettles"
  /\ step.outcome = "throws"
  /\ step.task = "ctx"
  /\ ~DEV_ENVIRONMENT
  /\ posted # <<>>


\* ---------------------------------------------------------------------
\* The Host Bridge on runtimes whose subscribe and on calls can throw
\* (src/unnamed/part_002 lines 356-376 and 896-940)
\* ---------------------------------------------------------------------

\* the event names for which one method throws: none, the first, two in
\* the middle, all of them
ThrowingNames == {{}, {1}, {2, 3}, 1..SELECTION_EVENT_NAMES}

FaultyRuntimes ==
  {[R_FULL EXCEPT !.subscribe = hasSubscribe, !.on = hasOn,
                  !.getSelectedElements = getters[1], !.getSelectedElement = getters[2],
                  !.ready = hasReady,
                  !.attachThrows = {<<"subscribe", n>> : n \in viaSubscribe}
                                   \cup {<<"on", n>> : n \in viaOn}] :
     hasSubscribe \in BOOLEAN, hasOn \in BOOLEAN, hasReady \in BOOLEAN,
     getters \in {<<TRUE, TRUE>>, <<FALSE, TRUE>>, <<FALSE, FALSE>>},
     viaSubscribe \in ThrowingNames, viaOn \in ThrowingNames}

InitSubscribe ==
  /\ DEV_ENVIRONMENT \in BOOLEAN
  /\ scriptOrigin = O_SCRIPT
  /\ hostRuntime \in FaultyRuntimes
  /\ hostSelection \in {P_NONE, P_SINGLE}
  /\ layout = "wide"
  /\ runtimePromise = "runtime"
  /\ initPhase = IF hostRuntime.ready THEN "settled" ELSE "ready"
  /\ BridgeIs(SettleRuntime(LoadedBridge(scriptOrigin, hostRuntime.require), "runtime"))
  /\ contacted = FALSE
  /\ budget = [messages |-> 0, hostChanges |-> 0, notifications |-> MaxNotifications]
  /\ RetryIdle
  /\ PanelIdle
  /\ step = [kind |-> "load"]

NextSubscribe ==
  \/ HostReady
  \/ SelectionEvent
  \/ PollTick
  \/ HostCallSettles

SpecSubscribe == InitSubscribe /\ [][NextSubscribe]_bridgeAll

ReadyCallbackRan == runtimePromise = "runtime" /\ initPhase = "ready"

\* C27 once the ready callback ran, every event name whose subscribe or
\* on call did not throw has its listener, whatever the other calls did,
\* and the poll timer is set when the runtime has a selection getter,
\* whatever listeners were attached
C27_AttachAndPollIndependently ==
  ReadyCallbackRan =>
    /\ \A label \in {"subscribe", "on"}, n \in 1..SELECTION_EVENT_NAMES :
          (hostRuntime[label] /\ <<label, n>> \notin hostRuntime.attachThrows)
             => <<label, n>> \in listeners
    /\ (hostRuntime.getSelectedElements \/ hostRuntime.getSelectedElement) => selectionPollTimer

\* the first subscribe call threw, the second attached, on attached
\* nothing, and the poll timer runs
C27_Witness ==
  /\ step.kind = "hostReady"
  /\ <<"subscribe", 1>> \in hostRuntime.attachThrows
  /\ <<"subscribe", 2>> \in listeners
  /\ hostRuntime.on
  /\ \A n \in 1..SELECTION_EVENT_NAMES : <<"on", n>> \notin listeners
  /\ selectionPollTimer


\* C28 after an accepted selection message, currentSelectionState and
\* currentSelected are what applying that message's payload to the panel
\* as it was right after loading gives, whatever was selected before
AppliedAlone(framed, payload) ==
  applySelectionState(LoadedPanel(framed, referrerOrigin, FALSE), payload)

C28_LastMessageReplacesSelection ==
  [][(step'.kind = "message" /\ step'.trusted /\ step'.selection)
       => \A framed \in BOOLEAN :
            \E alone \in {AppliedAlone(framed, step'.applied)} :
              /\ currentSelectionState' = alone.currentSelectionState
              /\ currentSelected' = alone.currentSelected]_panelAll

\* an accepted message without a selection emptied a panel that had shown
\* the development mock and then analysis results for it
C28_Witness ==
  /\ step.kind = "message"
  /\ step.trusted
  /\ step.selection
  /\ step.applied = Null
  /\ DEV_ENVIRONMENT
  /\ currentSelectionState = Null
  /\ currentSelected = Null
  /\ panelUi.results # Null


\* ---------------------------------------------------------------------
\* broadcastToHost applied to every state the origin-checking panel can
\* be in (src/public/panel.js lines 510-549).  The script calls it while
\* it loads; PanelBroadcasts stands for a call at any later time.
\* ---------------------------------------------------------------------

OutboundTypes ==
  {SUBSCRIBE_MESSAGE_TYPE, REQUEST_MESSAGE_TYPE, CONTEXT_READY_MESSAGE_TYPE,
   PANEL_RESIZE_MESSAGE_TYPE}

\* requestSelectionUpdate, notifyContextReady or requestHostResize
PanelBroadcasts ==
  \E type \in OutboundTypes :
    /\ panelPosted' = broadcastToHost(PanelState, type)
    /\ step' = [kind |-> "broadcast", type |-> type]
    /\ UNCHANGED <<designerMessageWindow, referrerOrigin, trustedDesignerOrigin,
                   designerOriginConfirmed, currentSelectionState, currentSelected,
                   devMockSelectionActive, analyzeProcessing, analyzeSelectionReady, panelUi,
                   panelRequest, resizeLoop>>
    /\ UNCHANGED <<DEV_ENVIRONMENT, bridgeVars, retryVars>>

NextOutbound ==
  \/ DeliverDesignerMessage
  \/ PanelBroadcasts

SpecOutbound == InitPanel /\ [][NextOutbound]_panelAll

PostedTargets == {panelPosted[i].target : i \in 1..Len(panelPosted)}

KnownOrigins == {KNOWN_WEBFLOW_ORIGINS[i] : i \in 1..Len(KNOWN_WEBFLOW_ORIGINS)}

\* what lines 21-22 make of the referrer
ReferrerTrusted ==
  IF referrerOrigin # NoOrigin /\ isAllowedHostOrigin(referrerOrigin)
  THEN {referrerOrigin} ELSE {}

\* C29 the messages a handler posted went to the referrer-derived origin
\* and the known host origins while no origin is confirmed, and to the
\* confirmed origin and nowhere else once one is
C29_OutboundTargets ==
  panelPosted # <<>> =>
    IF designerOriginConfirmed
    THEN PostedTargets = {trustedDesignerOrigin} /\ trustedDesignerOrigin # NoOrigin
    ELSE PostedTargets = ReferrerTrusted \cup KnownOrigins

\* a message posted after an origin other than the referrer's got confirmed
C29_Witness ==
  /\ step.kind = "broadcast"
  /\ designerOriginConfirmed
  /\ trustedDesignerOrigin # referrerOrigin
  /\ Len(panelPosted) = 1


\* ---------------------------------------------------------------------
\* The Host Bridge next to a runtime that is there when the script loads
\* and has a selection getter (src/unnamed/part_002 lines 330-376)
\* ---------------------------------------------------------------------

\* R_SINGLE handing the ready callback to the host, which calls it later
R_DEFERRED == [R_SINGLE EXCEPT !.ready = TRUE]

GetterRuntimes == {R_FULL, R_SINGLE, R_DEFERRED}

InitLoadedRuntime ==
  /\ DEV_ENVIRONMENT \in BOOLEAN
  /\ scriptOrigin \in {NoOrigin, O_SCRIPT}
  /\ hostRuntime \in GetterRuntimes
  /\ hostSelection = P_NONE
  /\ layout = "wide"
  /\ runtimePromise = "runtime"
  /\ initPhase = IF hostRuntime.ready THEN "settled" ELSE "ready"
  /\ BridgeIs(SettleRuntime(LoadedBridge(scriptOrigin, hostRuntime.require), "runtime"))
  /\ contacted = FALSE
  /\ budget = [messages |-> MaxLiveMessages, hostChanges |-> MaxHostChanges,
               notifications |-> MaxNotifications]
  /\ RetryIdle
  /\ PanelIdle
  /\ step = [kind |-> "load"]

NextLoadedRuntime ==
  \/ DeliverPanelMessage
  \/ HostReady
  \/ HostSelects
  \/ LayoutChanges
  \/ SelectionEvent
  \/ PollTick
  \/ HostCallSettles

SpecLoadedRuntime == InitLoadedRuntime /\ [][NextLoadedRuntime]_bridgeAll

\* the state createDevSelectionState builds
IsSyntheticMock(selection) == Get(Get(selection, "primary"), "id") = Str("riaa-dev-mock")

\* fetchCurrentSelection's catch block activates the mock with the reason
\* 'runtime-error' and returns one without a reason
LeftByFailedCall(selection) == Get(selection, "reason") \in {Str("runtime-error"), Undef}

\* C30 a synthesized mock state is posted only in development, and only
\* when the discovery wait ended without a runtime or is still running,
\* or the runtime has neither selection getter, or a host call failed
C30_MockOnlyWithoutUsableRuntime ==
  \A i \in 1..Len(posted) :
    IsSyntheticMock(Get(posted[i].data, "selection"))
      => /\ DEV_ENVIRONMENT
         /\ \/ runtimePromise = "null"
            \/ runtimePromise = "pending"
            \/ /\ runtimePromise = "runtime"
               /\ ~(hostRuntime.getSelectedElements \/ hostRuntime.getSelectedElement)
            \/ LeftByFailedCall(Get(posted[i].data, "selection"))
            \/ step.kind = "hostCallSettles" /\ step.outcome = "throws"


\* ---------------------------------------------------------------------
\* The handshake retry loop of the retrying panel with its interval
\* firing for as long as it is set (src/unnamed/part_002 lines 26-40,
\* 82-88, 116-120 and 288-309)
\* ---------------------------------------------------------------------

NextHandshake ==
  \/ RetryTick
  \/ RetrySelectionMessage
  \/ RetryRefreshClick

SpecHandshake == InitRetry /\ [][NextHandshake]_retryAll

\* an interval that is set keeps firing
SpecHandshakeLive ==
  /\ SpecHandshake
  /\ WF_retryAll(RetryTick)

\* C31 a retry timer that is set is cleared in the end; it is cleared only
\* by a selection message or by the tick that finds
\* MAX_HANDSHAKE_ATTEMPTS attempts made, the attempts never exceed that
\* number, and a cleared timer is set again only by a refresh
C31_HandshakeLoopTerminates ==
  /\ (handshakeTimer # 0) ~> (handshakeTimer = 0 /\ liveTimers = {})
  /\ [](handshakeAttempts <= MAX_HANDSHAKE_ATTEMPTS)
  /\ [][/\ (handshakeTimer # 0 /\ handshakeTimer' = 0)
             => \/ step'.kind = "selectionMessage" /\ step'.type = SELECTION_MESSAGE_TYPE
                \/ step'.kind = "retryTick" /\ handshakeAttempts = MAX_HANDSHAKE_ATTEMPTS
        /\ (handshakeTimer = 0 /\ handshakeTimer' # 0) => step'.kind = "refresh"]_retryAll

\* the loop ran out of attempts after a refresh had started it again
C31_Witness ==
  /\ step.kind = "retryTick"
  /\ handshakeTimer = 0
  /\ liveTimers = {}
  /\ handshakeAttempts = MAX_HANDSHAKE_ATTEMPTS
  /\ ~handshakeComplete
  /\ refreshes > 0


\* C32 when a settled analysis leaves the results card visible or the
\* status 'Analysis complete.', an element is selected and the widths the
\* results were computed from are the widths of that element
C32_ResultsAreForTheSelection ==
  [][(/\ step'.kind = "analysisSettles"
      /\ ~panelUi'.resultsHidden \/ panelUi'.status = "Analysis complete.")
       => /\ Truthy(currentSelected')
          /\ panelRequest = deriveMeasuredWidths(currentSelected')]_panelAll


\* C33 while a recommendation request is in flight the processing flag is
\* set and the Analyze button is disabled, so no second request can start
C33_OneRequestInFlight ==
  panelRequest # Null => analyzeProcessing /\ panelUi.analyzeDisabled

\* a selection message put an element with widths in place while the
\* request was in flight, and the button stayed disabled
C33_Witness ==
  /\ panelRequest # Null
  /\ step.kind = "message"
  /\ step.trusted
  /\ step.selection
  /\ analyzeSelectionReady
  /\ Truthy(deriveMeasuredWidths(currentSelected))
  /\ panelUi.analyzeDisabled


\* the panel with its Designer, the recommendation request settling in
\* the end
SpecWidthsLive ==
  /\ SpecWidths
  /\ WF_panelAll(PanelAnalysisSettles)

\* C34 an analysis that set the processing flag resets it in the end; the
\* flag is set exactly while the request is in flight, and a click that
\* sends no request and every settled request leave the flag reset and
\* the button disabled exactly when no selection is ready
C34_AnalysisFinishes ==
  /\ analyzeProcessing ~> ~analyzeProcessing
  /\ [](analyzeProcessing <=> panelRequest # Null)
  /\ [][(step'.kind \in {"analyzeClick", "analysisSettles"} /\ panelRequest' = Null)
         => /\ ~analyzeProcessing'
            /\ panelUi'.analyzeDisabled = ~analyzeSelectionReady']_panelAll

\* a failed request ended with the flag reset and the button enabled
C34_Witness ==
  /\ step.kind = "analysisSettles"
  /\ step.outcome = "failed"
  /\ ~DEV_ENVIRONMENT
  /\ ~analyzeProcessing
  /\ ~panelUi.analyzeDisabled
  /\ panelUi.status = "The AI backend returned an error."


\* the state a selection event or a poll tick makes of the host's
\* selection as it is now
NewerStates ==
  {normalizeSelectionState(hostSelection, layout, getCurrentDevice),
   normalizeSelectionState(OrElse(hostSelection, Arr(<<>>)), layout, getCurrentDevice)}

\* the one pending fetch of initialisation or of a context-ready message
\* called its getter before the host's selection changed
StaleFetchPending ==
  /\ Len(pending) = 1
  /\ pending[1].stage = "getter"
  /\ pending[1].kind \in {"init", "ctx"}
  /\ pending[1].raw # hostSelection

\* C35 when the retained state was made of the host's present selection
\* and a fetch that read an earlier selection completes, the retained
\* state stays and no message with another state is posted
C35_StaleFetchDoesNotOverwrite ==
  [][(/\ StaleFetchPending
      /\ latestSelectionState \in NewerStates
      /\ step'.kind = "hostCallSettles"
      /\ step'.outcome = "ok")
       => /\ latestSelectionState' = latestSelectionState
          /\ \A i \in 1..Len(posted') :
                Get(posted'[i].data, "selection") = latestSelectionState]_bridgeAll


\* the last handler answered a subscribe or request message
AnswersRequest ==
  \/ step.kind = "message" /\ step.trusted /\ step.type \in {SUBSCRIBE_MESSAGE, REQUEST_MESSAGE}
  \/ step.kind = "hostCallSettles" /\ step.task = "req"

\* C36 every message the bridge posts goes to a window of the subscriber
\* set, or to the pinned panel window when a subscribe or request is being
\* answered; its target origin is a concrete origin, never the wildcard,
\* and is the origin recorded for that window, which is the pinned origin
C36_PostsOnlyToSubscribersAtTheirOrigin ==
  \A i \in 1..Len(posted) :
    /\ posted[i].to # NoWindow
    /\ \/ \E j \in 1..Len(subscribers) : subscribers[j] = posted[i].to
       \/ AnswersRequest /\ posted[i].to = trustedPanelWindow
    /\ posted[i].targetOrigin \notin {"*", NoOrigin}
    /\ subscriberOrigins[posted[i].to] # NoOrigin
         => posted[i].targetOrigin = subscriberOrigins[posted[i].to]
    /\ posted[i].targetOrigin = trustedPanelOrigin

\* a selection event was broadcast to a registered panel window
C36_Witness ==
  /\ step.kind = "selectionEvent"
  /\ Len(posted) = 1
  /\ subscribers = <<posted[1].to>>
  /\ posted[1].targetOrigin = subscriberOrigins[posted[1].to]
  /\ posted[1].targetOrigin = O_SCRIPT

(***************************************************************************)
(* Host Bridge: the poll timer with a selection whose widths change        *)
(***************************************************************************)
\* poll ticks in one run of SpecPolling
MaxPolls == 2

\* the selected image with other host-supplied widths
ElPicResized ==
  Obj([id |-> Str("a"), domNode |-> Node("pic"),
       widths |-> Obj([desktop |-> Num(8000), tablet |-> Str("320.6px"), mobile |-> Num(4)])])

P_ARRAY_RESIZED == Arr(<<ElPicResized>>)

InitPolling ==
  /\ DEV_ENVIRONMENT \in BOOLEAN
  /\ scriptOrigin \in {NoOrigin, O_SCRIPT}
  /\ hostRuntime \in GetterRuntimes
  /\ hostSelection \in {P_ARRAY, P_SINGLE}
  /\ layout = "wide"
  /\ runtimePromise = "runtime"
  /\ initPhase = IF hostRuntime.ready THEN "settled" ELSE "ready"
  /\ BridgeIs(SettleRuntime(LoadedBridge(scriptOrigin, hostRuntime.require), "runtime"))
  /\ contacted = FALSE
  /\ budget = [messages |-> MaxLiveMessages, hostChanges |-> MaxHostChanges,
               notifications |-> MaxPolls]
  /\ RetryIdle
  /\ PanelIdle
  /\ step = [kind |-> "load"]

\* the host reports other widths for the element that stays selected
HostSuppliesWidths ==
  /\ budget.hostChanges > 0
  /\ hostSelection = P_ARRAY
  /\ hostSelection' = P_ARRAY_RESIZED
  /\ budget' = [budget EXCEPT !.hostChanges = @ - 1]
  /\ posted' = <<>>
  /\ step' = [kind |-> "hostSuppliesWidths"]
  /\ UNCHANGED <<trustedPanelOrigin, panelOriginConfirmed, trustedPanelWindow, subscribers,
                 subscriberOrigins, latestSelectionState, selectionPollTimer,
                 lastPolledSignature, devMockActive, designerScriptSupported, hostRuntime,
                 runtimePromise, initPhase, listeners, pending, hostPanelSize, contacted>>
  /\ UNCHANGED <<DEV_ENVIRONMENT, scriptOrigin, layout>>
  /\ UNCHANGED <<retryVars, panelVars>>

NextPolling ==
  \/ DeliverPanelMessage
  \/ HostReady
  \/ HostSelects
  \/ LayoutChanges
  \/ HostSuppliesWidths
  \/ PollTick
  \/ HostCallSettles

SpecPolling == InitPolling /\ [][NextPolling]_bridgeAll

WidthFields == {"widths", "computedWidths", "computedWidthDesktop", "computedWidthMobile"}

WithoutWidths(element) ==
  IF element.t = "obj"
  THEN Obj([k \in DOMAIN element.v \ WidthFields |-> element.v[k]])
  ELSE element

\* a normalized state with every width of every element left out
WidthFree(state) ==
  Obj([k \in DOMAIN state.v |->
         CASE k = "elements" /\ IsArray(state.v[k]) ->
                Arr([i \in 1..Len(state.v[k].v) |-> WithoutWidths(state.v[k].v[i])])
           [] k = "primary" -> WithoutWidths(state.v[k])
           [] OTHER -> state.v[k]])

\* what a poll read of the host selection normalizes to in this state
PolledNow == normalizeSelectionState(OrElse(hostSelection, Arr(<<>>)), layout, getCurrentDevice)

\* the state differs from the one the last broadcasting poll left, in widths only
DiffersInWidthsOnly(state) ==
  /\ lastPolledSignature = serializeSelectionState(latestSelectionState)
  /\ state # latestSelectionState
  /\ WidthFree(state) = WidthFree(latestSelectionState)

\* C37 a poll read whose normalized state differs from the previously
\* polled state only in measured or host-supplied widths posts nothing and
\* leaves latestSelectionState and the poll signature as they were
C37_PollIgnoresWidths ==
  [][\A i \in 1..Len(pending) :
       (/\ pending[i].kind = "poll"
        /\ step'.kind = "hostCallSettles" /\ step'.task = "poll" /\ step'.outcome = "ok"
        /\ pending' = SubSeq(pending, 1, i - 1) \o SubSeq(pending, i + 1, Len(pending))
        /\ DiffersInWidthsOnly(normalizeSelectionState(OrElse(pending[i].raw, Arr(<<>>)),
                                                       layout, getCurrentDevice)))
         => /\ posted' = <<>>
            /\ latestSelectionState' = latestSelectionState
            /\ lastPolledSignature' = lastPolledSignature]_bridgeAll

\* a second poll read found only other widths and a subscribed panel was
\* told nothing
C37_Witness ==
  /\ step.kind = "hostCallSettles" /\ step.task = "poll" /\ step.outcome = "ok"
  /\ pending = <<>>
  /\ subscribers # <<>>
  /\ posted = <<>>
  /\ DiffersInWidthsOnly(PolledNow)

\* the same, the widths being those the host supplies
C37_WitnessHostWidths ==
  /\ C37_Witness
  /\ hostSelection = P_ARRAY_RESIZED
  /\ layout = "wide"

(***************************************************************************)
(* Host Bridge: runtime discovery is decided once                          *)
(***************************************************************************)
\* the state a fetch returns when runtimePromise resolved to null
IsFallbackState(selection) ==
  \/ selection = createEmptySelectionState
  \/ DEV_ENVIRONMENT /\ IsSyntheticMock(selection)

\* C38 runtimePromise settles once and keeps its value; once it has settled
\* with null no selection listener is attached, the poll timer is not
\* started, no getter of a runtime that appeared later is called, and every
\* selection posted or kept is the empty state or, in development, the mock
C38_DiscoveryDecidedOnce ==
  [][/\ runtimePromise # "pending" => runtimePromise' = runtimePromise
     /\ runtimePromise' = "null"
          => /\ listeners' = {}
             /\ ~selectionPollTimer'
             /\ \A i \in 1..Len(pending') : pending'[i].stage # "getter"
             /\ IsFallbackState(latestSelectionState')
             /\ \A i \in 1..Len(posted') :
                  Get(posted'[i].data, "selection") # Undef
                    => IsFallbackState(Get(posted'[i].data, "selection"))]_bridgeAll

\* the runtime appeared after the timeout and has a selection, and a panel
\* that asked for the selection was sent the fallback state
C38_Witness ==
  /\ runtimePromise = "null"
  /\ hostRuntime.present
  /\ hostSelection # P_NONE
  /\ step.kind = "message" /\ step.trusted /\ step.type = REQUEST_MESSAGE
  /\ Len(posted) > 0
  /\ IsFallbackState(Get(posted[1].data, "selection"))
  /\ listeners = {}
  /\ ~selectionPollTimer

\* the runtime appears when the discovery wait has already ended with null
C38_WitnessLate ==
  /\ step.kind = "runtimeAppears"
  /\ runtimePromise = "null"
  /\ hostRuntime.getSelectedElement

(***************************************************************************)
(* Host Bridge: one selection change notified through several listeners    *)
(***************************************************************************)
\* notifications the host makes in one run of SpecNotify
MaxEvents == 2

InitNotify ==
  /\ DEV_ENVIRONMENT \in BOOLEAN
  /\ scriptOrigin \in {NoOrigin, O_SCRIPT}
  /\ hostRuntime \in {R_FULL, R_SINGLE}
  /\ hostSelection = P_NONE
  /\ layout = "wide"
  /\ runtimePromise = "runtime"
  /\ initPhase = IF hostRuntime.ready THEN "settled" ELSE "ready"
  /\ BridgeIs(SettleRuntime(LoadedBridge(scriptOrigin, hostRuntime.require), "runtime"))
  /\ contacted = FALSE
  /\ budget = [messages |-> MaxLiveMessages, hostChanges |-> MaxHostChanges,
               notifications |-> MaxEvents]
  /\ RetryIdle
  /\ PanelIdle
  /\ step = [kind |-> "load"]

\* the host calls the callback of one registration: handleSelectionEvent
\* with the event name of that registration
RegistrationNotified ==
  \E registration \in listeners :
    /\ budget.notifications > 0
    /\ BridgeBecomes(handleSelectionChange(BridgeState, hostSelection))
    /\ budget' = [budget EXCEPT !.notifications = @ - 1]
    /\ step' = [kind |-> "selectionEvent", registration |-> registration,
                 after |-> IF step.kind = "selectionEvent" THEN step.registration ELSE <<>>]
    /\ UNCHANGED <<hostRuntime, runtimePromise, initPhase, contacted>>
    /\ EnvUnchanged
    /\ UNCHANGED <<retryVars, panelVars>>

NextNotify ==
  \/ DeliverPanelMessage
  \/ HostReady
  \/ HostSelects
  \/ RegistrationNotified
  \/ HostCallSettles

SpecNotify == InitNotify /\ [][NextNotify]_bridgeAll

\* C39 a runtime with both subscribe and on gets the change handler through
\* both methods for each of the four event names, and every notification,
\* also one of a selection already broadcast, is normalized, retained and
\* posted to every subscriber
C39_BroadcastPerNotification ==
  [][/\ (ReadyCallbackRan' /\ hostRuntime.subscribe /\ hostRuntime.on)
          => listeners' = {"subscribe", "on"} \X (1..SELECTION_EVENT_NAMES)
     /\ step'.kind = "selectionEvent"
          => /\ latestSelectionState'
                  = normalizeSelectionState(hostSelection, layout, getCurrentDevice)
             /\ Len(posted') = Len(subscribers')
             /\ \A i \in 1..Len(posted') :
                  /\ posted'[i].to = subscribers'[i]
                  /\ Get(posted'[i].data, "selection") = latestSelectionState']_bridgeAll

\* the same selection was notified through a second registration and was
\* posted to the subscribed panel again
C39_Witness ==
  /\ step.kind = "selectionEvent"
  /\ step.after # <<>>
  /\ step.after # step.registration
  /\ hostRuntime.subscribe /\ hostRuntime.on
  /\ Cardinality(listeners) = 2 * SELECTION_EVENT_NAMES
  /\ hostSelection # P_NONE
  /\ Len(posted) = 1
  /\ Get(posted[1].data, "selection") = latestSelectionState

(***************************************************************************)
(* Host Bridge: messages of any type, accepted or not                      *)
(***************************************************************************)
ProtocolTypes ==
  {SUBSCRIBE_MESSAGE, REQUEST_MESSAGE, CONTEXT_READY_EVENT, PANEL_RESIZE_MESSAGE}

InitContact ==
  /\ DEV_ENVIRONMENT \in BOOLEAN
  /\ scriptOrigin \in {NoOrigin, O_SCRIPT}
  /\ hostRuntime \in {R_FULL, R_SINGLE}
  /\ hostSelection \in {P_NONE, P_ARRAY}
  /\ layout = "wide"
  /\ runtimePromise = "runtime"
  /\ initPhase = IF hostRuntime.ready THEN "settled" ELSE "ready"
  /\ BridgeIs(SettleRuntime(LoadedBridge(scriptOrigin, hostRuntime.require), "runtime"))
  /\ contacted = FALSE
  /\ budget = [messages |-> MaxMessages, hostChanges |-> MaxHostChanges,
               notifications |-> MaxNotifications]
  /\ RetryIdle
  /\ PanelIdle
  /\ step = [kind |-> "load"]

\* the step record of a message, with the window and origin it came from
ContactStep(event) ==
  Then(MessageStep(event), LAMBDA met :
    [k \in DOMAIN met \cup {"sender", "from"} |->
       CASE k = "sender" -> event.source
         [] k = "from" -> event.origin
         [] OTHER -> met[k]])

\* a 'message' event of any type reaches window: handlePanelMessage(event)
DeliverAnyMessage ==
  \E event \in PanelEvents :
    /\ (event.size # Null) <=> (event.type = PANEL_RESIZE_MESSAGE)
    /\ FreshWindowsInOrder(event)
    /\ event.origin # NoOrigin
    /\ budget.messages > 0
    /\ Len(pending) < MaxPending
    /\ BridgeBecomes(handlePanelMessage(BridgeState, event))
    /\ contacted' = (contacted \/ isAllowedPanelOrigin(event.origin))
    /\ budget' = [budget EXCEPT !.messages = @ - 1]
    /\ step' = ContactStep(event)
    /\ UNCHANGED <<hostRuntime, runtimePromise, initPhase>>
    /\ EnvUnchanged
    /\ UNCHANGED <<retryVars, panelVars>>

NextContact ==
  \/ DeliverAnyMessage
  \/ HostReady
  \/ HostCallSettles

SpecContact == InitContact /\ [][NextContact]_bridgeAll

\* the last message had a type outside the protocol and an acceptable origin
UnknownTypeDelivered ==
  /\ step'.kind = "message"
  /\ step'.acceptable
  /\ step'.type \notin ProtocolTypes

\* C40 a message of a type outside the protocol from an acceptable origin
\* leaves the subscriber set and latestSelectionState alone and posts
\* nothing; when it is the first message from an acceptable origin it pins
\* that origin and its sender window, and every message accepted from a
\* window afterwards comes from that window
C40_UnknownTypePinsSender ==
  [][/\ UnknownTypeDelivered
          => /\ subscribers' = subscribers
             /\ subscriberOrigins' = subscriberOrigins
             /\ latestSelectionState' = latestSelectionState
             /\ posted' = <<>>
             /\ pending' = pending
     /\ (UnknownTypeDelivered /\ step'.firstContact /\ step'.hasSender)
          => /\ trustedPanelOrigin' = step'.from
             /\ trustedPanelWindow' = step'.sender
     /\ (step'.kind = "message" /\ step'.trusted /\ step'.hasSender
           /\ trustedPanelWindow # NoWindow)
          => step'.sender = trustedPanelWindow]_bridgeAll

====
